---- MODULE Spec2Model ----
(***************************************************************************)
(* Drag-and-drop lifecycle of the inspector's Scene Explorer.              *)
(*                                                                         *)
(* Two revisions of the hook useSceneExplorerDragDrop are modelled:        *)
(*   hook = "config"   the config-object hook (sceneExplorerDragDrop.ts):  *)
(*                     tree items carry a DragDropConfig and the zone is a *)
(*                     DropPosition;                                       *)
(*   hook = "provider" the provider-based hook (part_000, first half):     *)
(*                     tree items carry a DragDropProvider, the zone is a  *)
(*                     DropVisual and evaluateDrop yields an opaque        *)
(*                     dropData.                                           *)
(* One behaviour is the life of one hook instance: Init picks the revision *)
(* and the scene graph; a handler step is one event handler run to         *)
(* completion followed by the re-render it schedules, and leaves the event *)
(* it handled in ev and the callbacks it invoked in calls; the step Return *)
(* gives control back to the event loop, which then holds no event.        *)
(*                                                                         *)
(* The reference providers' evaluateDrop (reorderDragProvider.ts) are pure *)
(* functions; SpecProviders applies them to inputs drawn by its Init.      *)
(***************************************************************************)
EXTENDS Integers, Sequences, FiniteSets, TLC

(***************************************************************************)
(* Bounds of the model.                                                    *)
(***************************************************************************)
NumEntities == 3
NumProviders == 2
NumPayloads == 2
\* how many nodes a sibling collection is drawn from
NumSiblings == 4

\* how many drops a scene goes through
MaxDrops == 1

\* how many functions a callback property of the service is assigned
NumCallbacks == 2

RectTop == 10
RectHeight == 20

(***************************************************************************)
(* Program constants: the thresholds of the zone classifiers, in percent.  *)
(***************************************************************************)
BeforePercent == 25
AfterPercent == 85
ReorderTopPercent == 15
ReorderBottomPercent == 85

(***************************************************************************)
(* Values.  Entities, providers and drop payloads are identified by        *)
(* positive integers; 0 is the null reference of each.  A DropPosition or  *)
(* DropVisual that is null is the string "null".  A nullable record        *)
(* (lastDropResult) is the empty sequence or a one-element sequence.       *)
(***************************************************************************)
Null == 0
NullZone == "null"
Entities == 1..NumEntities
Providers == 1..NumProviders
Payloads == 1..NumPayloads
DropPositions == {"before", "inside", "after"}
DropVisuals == {"border", "edgeTop", "edgeBottom", "none"}
NoCoords == -1
NoResult == <<>>

\* The three shapes of an optional boolean callback: not supplied, returning
\* true, returning false.
Callbacks == {"unset", "true", "false"}

\* cb?.(...) ?? true
Approves(cb) == cb # "false"

VARIABLES
    hook,                \* which revision of the hook this instance is
    parent,              \* the scene graph: parent[e] is e's parent or Null
    draggedEntity,       \* rendered state (useState)
    currentDropPosition, \* rendered state, config-object hook
    currentDropVisual,   \* rendered state, provider-based hook
    currentDropTarget,   \* rendered state
    lastDropResult,      \* rendered state
    dropStateRef,        \* the mutable session record (useRef)
    overEntity,          \* the entity the pointer was over when the stored
                         \* hover target was resolved, Null with no target
    ev,                  \* the event being handled, NoEvent between two events
    calls,               \* the callbacks its handler invoked, in order
    pre,                 \* the session as the handler of ev found it
    active,              \* the sensor's gesture in progress, by what its start did
    pv                   \* input and result of a reference provider's evaluateDrop

vars == <<hook, parent, draggedEntity, currentDropPosition, currentDropVisual,
          currentDropTarget, lastDropResult, dropStateRef, overEntity, ev, calls,
          pre, active, pv>>

hookVars == <<hook, parent, draggedEntity, currentDropPosition, currentDropVisual,
              currentDropTarget, lastDropResult, dropStateRef, overEntity, ev, calls,
              pre, active>>

(***************************************************************************)
(* The scene graph.                                                        *)
(***************************************************************************)
\* The scene graphs: every forest over the entities, up to renaming.  A parent
\* is named before its children, which makes the relation acyclic.
Forests ==
    {par \in [Entities -> Entities \cup {Null}] : \A e \in Entities : par[e] < e}

\* Node.isDescendantOf(ancestor): walks the parent chain upwards
RECURSIVE IsDescendantOf(_, _, _)
IsDescendantOf(par, node, ancestor) ==
    IF par[node] = Null THEN FALSE
    ELSE IF par[node] = ancestor THEN TRUE
    ELSE IsDescendantOf(par, par[node], ancestor)

\* GetEntityId(entity): the entity's uniqueId, which is what identifies it here
GetEntityId(entity) == entity

\* allTreeItems.get(id).children: the visible children, in display order
TreeItemChildren(par, id) ==
    SelectSeq([i \in 1..NumEntities |-> i], LAMBDA c : par[c] = id)

(***************************************************************************)
(* The session record and the callback log.                                *)
(***************************************************************************)
\* A callback invocation: which callback, whose it is (the entity whose
\* dragDropConfig, or the provider; Null for the service-level callbacks and
\* the state setter) and the arguments it received.
Call(fn, owner, dragged, target, zone, data) ==
    [fn |-> fn, owner |-> owner, dragged |-> dragged, target |-> target,
     zone |-> zone, data |-> data]

\* resetState: the value assigned to dropStateRef.current.  position is a
\* field of the config-object hook only; visual, dropData and provider are
\* fields of the provider-based hook only and stay null in the other.
ResetState ==
    [target |-> Null, position |-> NullZone, visual |-> NullZone,
     dropData |-> Null, draggedEntity |-> Null, provider |-> Null]

\* The event of a handler: every field a handler can read, at its default.
NoEvent ==
    [op |-> "none",
     entity |-> Null,          \* data.current?.entity of the active / over element
     over |-> FALSE,           \* the move event has an 'over' element
     carrier |-> FALSE,        \* the over element carries a dragDropConfig / provider
     provider |-> Null,        \* data.current?.provider
     pointerY |-> NoCoords,    \* clientY + delta.y, or NoCoords
     itemIsEntity |-> FALSE,   \* allTreeItems.get(id)?.type === "entity"
     open |-> FALSE,           \* openItems.has(id)
     childIsEntity |-> FALSE,  \* children[0].type === "entity"
     childHasConfig |-> FALSE, \* children[0].dragDropConfig
     sectionCb |-> "unset",    \* dragDropConfig.canDrag / canDrop, provider.canDrag
     serviceCb |-> "unset",    \* the hook's canDrag / canDrop parameter
     canDrop |-> FALSE,        \* evaluateDrop(...).canDrop
     visual |-> NullZone,      \* evaluateDrop(...).visual
     dropData |-> Null,        \* evaluateDrop(...).dropData
     onDrop |-> "unset",       \* the hook's onDrop parameter: unset, pass, prevent
     performDrop |-> FALSE,    \* the dragged item's config has a performDrop
     onDropped |-> FALSE]      \* the earlier hook's onDropped parameter is set

\* The session at the entry of a handler: the session record, the rendered
\* state and the sensor's gesture.
Snapshot ==
    [ref |-> dropStateRef, over |-> overEntity, last |-> lastDropResult,
     draggedEntity |-> draggedEntity,
     currentDropTarget |-> currentDropTarget,
     currentDropPosition |-> currentDropPosition,
     currentDropVisual |-> currentDropVisual, active |-> active]

NoSnapshot ==
    [ref |-> ResetState, over |-> Null, last |-> NoResult, draggedEntity |-> Null,
     currentDropTarget |-> Null, currentDropPosition |-> NullZone,
     currentDropVisual |-> NullZone, active |-> "none"]

(***************************************************************************)
(* The config-object hook.                                                 *)
(***************************************************************************)
\* a classifier whose zones include their thresholds
CalculateDropPositionInclusive(clientY, top, height) ==
    LET relativeY == clientY - top IN
    IF 100 * relativeY <= BeforePercent * height THEN "before"
    ELSE IF 100 * relativeY >= AfterPercent * height THEN "after"
    ELSE "inside"

\* calculateDropPosition: relativeY < height * 0.25, relativeY > height * 0.85
CalculateDropPosition(clientY, top, height) ==
    LET relativeY == clientY - top IN
    IF 100 * relativeY < BeforePercent * height THEN "before"
    ELSE IF 100 * relativeY > AfterPercent * height THEN "after"
    ELSE "inside"

\* sectionCanDrag && serviceCanDrag
\* a start gate that consults the section-level canDrag only
CanStartDragSectionOnly(sectionCb, serviceCb) == Approves(sectionCb)

CanStartDrag(sectionCb, serviceCb) == Approves(sectionCb) /\ Approves(serviceCb)

\* The canDrag callbacks onDragStart evaluates: both, each when supplied.
CanDragCalls(entity, sectionCb, serviceCb) ==
    (IF sectionCb = "unset" THEN <<>>
     ELSE <<Call("section.canDrag", entity, entity, Null, NullZone, Null)>>)
    \o (IF serviceCb = "unset" THEN <<>>
        ELSE <<Call("service.canDrag", Null, entity, Null, NullZone, Null)>>)

\* a redirect that moves to the first child and keeps the zone
ResolveDropKeepingZone(par, dragged, targetEntity, dropPos, e) ==
    LET children == TreeItemChildren(par, GetEntityId(targetEntity))
        same == [target |-> targetEntity, position |-> dropPos,
                 config |-> targetEntity, redirected |-> FALSE]
    IN  IF dropPos = "after" /\ e.itemIsEntity /\ Len(children) > 0 /\ e.open
        THEN IF e.childIsEntity /\ children[1] # dragged /\ e.childHasConfig
             THEN [target |-> children[1], position |-> dropPos,
                   config |-> children[1], redirected |-> TRUE]
             ELSE same
        ELSE same

\* a resolution that validates a drop it does not redirect with the first child's config
ResolveDropChildConfigOnFallback(par, dragged, targetEntity, dropPos, e) ==
    LET children == TreeItemChildren(par, GetEntityId(targetEntity))
        same == [target |-> targetEntity, position |-> dropPos,
                 config |-> targetEntity, redirected |-> FALSE]
    IN  IF dropPos = "after" /\ e.itemIsEntity /\ Len(children) > 0 /\ e.open
        THEN IF e.childIsEntity /\ children[1] # dragged /\ e.childHasConfig
             THEN [target |-> children[1], position |-> "before",
                   config |-> children[1], redirected |-> TRUE]
             ELSE [same EXCEPT !.config = children[1]]
        ELSE same

\* a resolution that redirects to the first child even when it is the dragged entity
ResolveDropOntoDragged(par, dragged, targetEntity, dropPos, e) ==
    LET children == TreeItemChildren(par, GetEntityId(targetEntity))
        same == [target |-> targetEntity, position |-> dropPos,
                 config |-> targetEntity, redirected |-> FALSE]
    IN  IF dropPos = "after" /\ e.itemIsEntity /\ Len(children) > 0 /\ e.open
        THEN IF e.childIsEntity /\ e.childHasConfig
             THEN [target |-> children[1], position |-> "before",
                   config |-> children[1], redirected |-> TRUE]
             ELSE same
        ELSE same

\* The resolution of target, position and config in onDragMove: "after" an
\* expanded entity item with children is redirected to "before" its first
\* child, using that child's config.
ResolveDrop(par, dragged, targetEntity, dropPos, e) ==
    LET children == TreeItemChildren(par, GetEntityId(targetEntity))
        same == [target |-> targetEntity, position |-> dropPos,
                 config |-> targetEntity, redirected |-> FALSE]
    IN  IF dropPos = "after" /\ e.itemIsEntity /\ Len(children) > 0 /\ e.open
        THEN IF e.childIsEntity /\ children[1] # dragged /\ e.childHasConfig
             THEN [target |-> children[1], position |-> "before",
                   config |-> children[1], redirected |-> TRUE]
             ELSE same
        ELSE same

\* a validation that one approval satisfies
CanDropResolvedEitherApproves(sectionCb, serviceCb) ==
    Approves(sectionCb) \/ Approves(serviceCb)

\* sectionCanDrop && serviceCanDrop
CanDropResolved(sectionCb, serviceCb) == Approves(sectionCb) /\ Approves(serviceCb)

\* The canDrop callbacks onDragMove evaluates on the resolved drop.
CanDropCalls(dragged, r, sectionCb, serviceCb) ==
    (IF sectionCb = "unset" THEN <<>>
     ELSE <<Call("section.canDrop", r.config, dragged, r.target, r.position, Null)>>)
    \o (IF serviceCb = "unset" THEN <<>>
        ELSE <<Call("service.canDrop", Null, dragged, r.target, r.position, Null)>>)

\* a hover update that does not test whether a drag was accepted
MoveDegradesIgnoringRejection(dragged, e) ==
    \/ ~e.over
    \/ e.entity = Null \/ ~e.carrier \/ e.entity = dragged

\* The two early exits of onDragMove that clear the hover sub-state.
MoveDegrades(dragged, e) ==
    \/ ~e.over \/ dragged = Null
    \/ e.entity = Null \/ ~e.carrier \/ e.entity = dragged

\* a hover update that keeps the stored target when validation rejects
ConfigMoveRefKeepingOnReject(ref, par, e) ==
    LET dragged == ref.draggedEntity
        cleared == [ref EXCEPT !.position = NullZone, !.target = Null]
    IN  IF MoveDegrades(dragged, e) THEN cleared
        ELSE IF e.pointerY = NoCoords THEN ref
        ELSE LET dropPos == CalculateDropPosition(e.pointerY, RectTop, RectHeight)
                 r == ResolveDrop(par, dragged, e.entity, dropPos, e)
             IN  IF CanDropResolved(e.sectionCb, e.serviceCb)
                 THEN [ref EXCEPT !.position = r.position, !.target = r.target]
                 ELSE ref

\* dropStateRef.current after onDragMove of the config-object hook
ConfigMoveRef(ref, par, e) ==
    LET dragged == ref.draggedEntity
        cleared == [ref EXCEPT !.position = NullZone, !.target = Null]
    IN  IF MoveDegrades(dragged, e) THEN cleared
        ELSE IF e.pointerY = NoCoords THEN ref
        ELSE LET dropPos == CalculateDropPosition(e.pointerY, RectTop, RectHeight)
                 r == ResolveDrop(par, dragged, e.entity, dropPos, e)
             IN  IF CanDropResolved(e.sectionCb, e.serviceCb)
                 THEN [ref EXCEPT !.position = r.position, !.target = r.target]
                 ELSE cleared

\* the callbacks onDragMove of the config-object hook invokes
ConfigMoveCalls(ref, par, e) ==
    LET dragged == ref.draggedEntity IN
    IF MoveDegrades(dragged, e) \/ e.pointerY = NoCoords THEN <<>>
    ELSE LET dropPos == CalculateDropPosition(e.pointerY, RectTop, RectHeight)
             r == ResolveDrop(par, dragged, e.entity, dropPos, e)
         IN  CanDropCalls(dragged, r, e.sectionCb, e.serviceCb)

\* a commit condition that does not look for the dragged entity's config
ConfigCommitsWithoutConfig(ref, e) ==
    /\ ref.target # Null /\ ref.position # NullZone /\ ref.draggedEntity # Null

\* onDragEnd of the config-object hook commits when the session record is
\* populated and the dragged entity's tree item is an entity item with a config
ConfigCommits(ref, e) ==
    /\ ref.target # Null /\ ref.position # NullZone /\ ref.draggedEntity # Null
    /\ e.itemIsEntity /\ e.carrier

\* a release that mutates before it consults the interception hook
ConfigEndCallsMutationFirst(ref, e) ==
    IF ~ConfigCommits(ref, e) THEN <<>>
    ELSE (IF e.performDrop
          THEN <<Call("section.performDrop", ref.draggedEntity,
                      ref.draggedEntity, ref.target, ref.position, Null)>>
          ELSE <<>>)
         \o (IF e.onDrop = "unset" THEN <<>>
             ELSE <<Call("service.onDrop", Null, ref.draggedEntity, ref.target, ref.position, Null)>>)
         \o (IF e.onDrop = "prevent" THEN <<>>
             ELSE <<Call("setLastDropResult", Null, ref.draggedEntity,
                         ref.target, ref.position, Null)>>)

\* the callbacks onDragEnd of the config-object hook invokes, in order
ConfigEndCalls(ref, e) ==
    IF ~ConfigCommits(ref, e) THEN <<>>
    ELSE (IF e.onDrop = "unset" THEN <<>>
          ELSE <<Call("service.onDrop", Null, ref.draggedEntity, ref.target, ref.position, Null)>>)
         \o (IF e.onDrop = "prevent" THEN <<>>
             ELSE (IF e.performDrop
                   THEN <<Call("section.performDrop", ref.draggedEntity,
                               ref.draggedEntity, ref.target, ref.position, Null)>>
                   ELSE <<>>)
                  \o <<Call("setLastDropResult", Null, ref.draggedEntity,
                            ref.target, ref.position, Null)>>)

\* a release that publishes the drop although the hook prevented it
ConfigEndResultIgnoringPrevent(ref, e, last) ==
    IF ConfigCommits(ref, e)
    THEN <<[draggedEntity |-> ref.draggedEntity, targetEntity |-> ref.target,
            drop |-> ref.position]>>
    ELSE last

\* lastDropResult after onDragEnd of the config-object hook
ConfigEndResult(ref, e, last) ==
    IF ConfigCommits(ref, e) /\ e.onDrop # "prevent"
    THEN <<[draggedEntity |-> ref.draggedEntity, targetEntity |-> ref.target,
            drop |-> ref.position]>>
    ELSE last

\* a drag start that records the dragged entity in the session and renders nothing
ConfigDragStartNotRendering(e) ==
    /\ hook = "config"
    /\ ev = NoEvent
    /\ pre' = Snapshot
    /\ ev' = e
    /\ IF e.entity = Null
       THEN /\ calls' = <<>>
            /\ UNCHANGED <<lastDropResult, dropStateRef>>
       ELSE /\ lastDropResult' = NoResult
            /\ calls' = CanDragCalls(e.entity, e.sectionCb, e.serviceCb)
            /\ IF CanStartDrag(e.sectionCb, e.serviceCb)
               THEN dropStateRef' = [dropStateRef EXCEPT !.draggedEntity = e.entity]
               ELSE UNCHANGED dropStateRef
    /\ UNCHANGED <<hook, parent, draggedEntity, currentDropPosition, currentDropVisual,
                   currentDropTarget>>

ConfigDragStart(e) ==
    /\ hook = "config"
    /\ ev = NoEvent
    /\ pre' = Snapshot
    /\ ev' = e
    /\ IF e.entity = Null
       THEN /\ calls' = <<>>
            /\ UNCHANGED <<draggedEntity, lastDropResult, dropStateRef>>
       ELSE /\ lastDropResult' = NoResult
            /\ calls' = CanDragCalls(e.entity, e.sectionCb, e.serviceCb)
            /\ IF CanStartDrag(e.sectionCb, e.serviceCb)
               THEN /\ draggedEntity' = e.entity
                    /\ dropStateRef' = [dropStateRef EXCEPT !.draggedEntity = e.entity]
               ELSE UNCHANGED <<draggedEntity, dropStateRef>>
    /\ UNCHANGED <<hook, parent, currentDropPosition, currentDropVisual, currentDropTarget>>

ConfigDragMove(e) ==
    /\ hook = "config"
    /\ ev = NoEvent
    /\ pre' = Snapshot
    /\ ev' = e
    /\ dropStateRef' = ConfigMoveRef(dropStateRef, parent, e)
    /\ calls' = ConfigMoveCalls(dropStateRef, parent, e)
    /\ IF ~MoveDegrades(dropStateRef.draggedEntity, e) /\ e.pointerY = NoCoords
       THEN UNCHANGED <<currentDropPosition, currentDropTarget>>
       ELSE /\ currentDropPosition' = dropStateRef'.position
            /\ currentDropTarget' = dropStateRef'.target
    /\ UNCHANGED <<hook, parent, draggedEntity, currentDropVisual, lastDropResult>>

\* a release that resets the session only when it committed a drop
ConfigDragEndResettingOnCommit(e) ==
    /\ hook = "config"
    /\ ev = NoEvent
    /\ pre' = Snapshot
    /\ ev' = e
    /\ calls' = ConfigEndCalls(dropStateRef, e)
    /\ lastDropResult' = ConfigEndResult(dropStateRef, e, lastDropResult)
    /\ IF ConfigCommits(dropStateRef, e)
       THEN /\ draggedEntity' = Null
            /\ currentDropPosition' = NullZone
            /\ currentDropTarget' = Null
            /\ dropStateRef' = ResetState
       ELSE UNCHANGED <<draggedEntity, currentDropPosition, currentDropTarget, dropStateRef>>
    /\ UNCHANGED <<hook, parent, currentDropVisual>>

ConfigDragEnd(e) ==
    /\ hook = "config"
    /\ ev = NoEvent
    /\ pre' = Snapshot
    /\ ev' = e
    /\ calls' = ConfigEndCalls(dropStateRef, e)
    /\ lastDropResult' = ConfigEndResult(dropStateRef, e, lastDropResult)
    /\ draggedEntity' = Null
    /\ currentDropPosition' = NullZone
    /\ currentDropTarget' = Null
    /\ dropStateRef' = ResetState
    /\ UNCHANGED <<hook, parent, currentDropVisual>>

\* a cancel that also forgets the result of the last drop
ConfigDragCancelClearingResult ==
    /\ hook = "config"
    /\ ev = NoEvent
    /\ pre' = Snapshot
    /\ ev' = [NoEvent EXCEPT !.op = "cancel"]
    /\ calls' = <<>>
    /\ draggedEntity' = Null
    /\ currentDropPosition' = NullZone
    /\ currentDropTarget' = Null
    /\ dropStateRef' = ResetState
    /\ lastDropResult' = NoResult
    /\ UNCHANGED <<hook, parent, currentDropVisual>>

ConfigDragCancel ==
    /\ hook = "config"
    /\ ev = NoEvent
    /\ pre' = Snapshot
    /\ ev' = [NoEvent EXCEPT !.op = "cancel"]
    /\ calls' = <<>>
    /\ draggedEntity' = Null
    /\ currentDropPosition' = NullZone
    /\ currentDropTarget' = Null
    /\ dropStateRef' = ResetState
    /\ UNCHANGED <<hook, parent, currentDropVisual, lastDropResult>>

(***************************************************************************)
(* The provider-based hook.                                                *)
(***************************************************************************)
\* provider?.canDrag(entity) ?? true
ProviderCanDrag(providerCb) == Approves(providerCb)

\* a clearDropState that forgets to clear the provider
ClearDropStateKeepingProvider(ref) ==
    [ref EXCEPT !.visual = NullZone, !.dropData = Null, !.target = Null]

\* clearDropState
ClearDropState(ref) ==
    [ref EXCEPT !.visual = NullZone, !.dropData = Null, !.target = Null,
                !.provider = Null]

\* a hover update that clears the hover when the pointer has no coordinates
ProviderMoveRefClearingWithoutCoords(ref, e) ==
    IF MoveDegrades(ref.draggedEntity, e) THEN ClearDropState(ref)
    ELSE IF e.pointerY = NoCoords THEN ClearDropState(ref)
    ELSE IF e.canDrop
         THEN [ref EXCEPT !.visual = e.visual, !.dropData = e.dropData,
                          !.target = e.entity, !.provider = e.provider]
         ELSE ClearDropState(ref)

\* dropStateRef.current after onDragMove of the provider-based hook; the
\* evaluation is what provider.evaluateDrop returned
ProviderMoveRef(ref, e) ==
    IF MoveDegrades(ref.draggedEntity, e) THEN ClearDropState(ref)
    ELSE IF e.pointerY = NoCoords THEN ref
    ELSE IF e.canDrop
         THEN [ref EXCEPT !.visual = e.visual, !.dropData = e.dropData,
                          !.target = e.entity, !.provider = e.provider]
         ELSE ClearDropState(ref)

\* the callbacks onDragMove of the provider-based hook invokes
ProviderMoveCalls(ref, e) ==
    IF MoveDegrades(ref.draggedEntity, e) \/ e.pointerY = NoCoords THEN <<>>
    ELSE <<Call("provider.evaluateDrop", e.provider, ref.draggedEntity, e.entity,
                NullZone, e.pointerY)>>

\* a commit condition that does not look at the drop data
ProviderCommitsWithoutDropData(ref) ==
    /\ ref.target # Null /\ ref.visual # NullZone
    /\ ref.draggedEntity # Null /\ ref.provider # Null

\* target && visual && dropData !== null && droppedEntity && provider
ProviderCommits(ref) ==
    /\ ref.target # Null /\ ref.visual # NullZone /\ ref.dropData # Null
    /\ ref.draggedEntity # Null /\ ref.provider # Null

\* a release that hands the provider the hover target without the drop data
ProviderEndCallsWithoutData(ref) ==
    IF ~ProviderCommits(ref) THEN <<>>
    ELSE <<Call("provider.onDrop", ref.provider, ref.draggedEntity, ref.target,
                NullZone, Null),
           Call("setLastDropResult", Null, ref.draggedEntity, ref.target,
                ref.visual, Null)>>

\* the callbacks onDragEnd of the provider-based hook invokes, in order
ProviderEndCalls(ref) ==
    IF ~ProviderCommits(ref) THEN <<>>
    ELSE <<Call("provider.onDrop", ref.provider, ref.draggedEntity, ref.target,
                NullZone, ref.dropData),
           Call("setLastDropResult", Null, ref.draggedEntity, ref.target,
                ref.visual, Null)>>

\* a release that publishes the dragged entity as the target of the drop
ProviderEndResultNamingDragged(ref, last) ==
    IF ProviderCommits(ref)
    THEN <<[draggedEntity |-> ref.draggedEntity, targetEntity |-> ref.draggedEntity,
            drop |-> ref.visual]>>
    ELSE last

\* lastDropResult after onDragEnd of the provider-based hook
ProviderEndResult(ref, last) ==
    IF ProviderCommits(ref)
    THEN <<[draggedEntity |-> ref.draggedEntity, targetEntity |-> ref.target,
            drop |-> ref.visual]>>
    ELSE last

\* a drag start that clears the last drop result only when the drag is accepted
ProviderDragStartClearingOnAccept(e) ==
    /\ hook = "provider"
    /\ ev = NoEvent
    /\ pre' = Snapshot
    /\ ev' = e
    /\ IF e.entity = Null
       THEN /\ calls' = <<>>
            /\ UNCHANGED <<draggedEntity, lastDropResult, dropStateRef>>
       ELSE /\ calls' = IF e.provider = Null THEN <<>>
                        ELSE <<Call("provider.canDrag", e.provider, e.entity, Null,
                                    NullZone, Null)>>
            /\ IF ProviderCanDrag(e.sectionCb)
               THEN /\ lastDropResult' = NoResult
                    /\ draggedEntity' = e.entity
                    /\ dropStateRef' = [dropStateRef EXCEPT !.draggedEntity = e.entity]
               ELSE UNCHANGED <<draggedEntity, dropStateRef, lastDropResult>>
    /\ UNCHANGED <<hook, parent, currentDropPosition, currentDropVisual, currentDropTarget>>

ProviderDragStart(e) ==
    /\ hook = "provider"
    /\ ev = NoEvent
    /\ pre' = Snapshot
    /\ ev' = e
    /\ IF e.entity = Null
       THEN /\ calls' = <<>>
            /\ UNCHANGED <<draggedEntity, lastDropResult, dropStateRef>>
       ELSE /\ lastDropResult' = NoResult
            /\ calls' = IF e.provider = Null THEN <<>>
                        ELSE <<Call("provider.canDrag", e.provider, e.entity, Null,
                                    NullZone, Null)>>
            /\ IF ProviderCanDrag(e.sectionCb)
               THEN /\ draggedEntity' = e.entity
                    /\ dropStateRef' = [dropStateRef EXCEPT !.draggedEntity = e.entity]
               ELSE UNCHANGED <<draggedEntity, dropStateRef>>
    /\ UNCHANGED <<hook, parent, currentDropPosition, currentDropVisual, currentDropTarget>>

ProviderDragMove(e) ==
    /\ hook = "provider"
    /\ ev = NoEvent
    /\ pre' = Snapshot
    /\ ev' = e
    /\ dropStateRef' = ProviderMoveRef(dropStateRef, e)
    /\ calls' = ProviderMoveCalls(dropStateRef, e)
    /\ IF ~MoveDegrades(dropStateRef.draggedEntity, e) /\ e.pointerY = NoCoords
       THEN UNCHANGED <<currentDropVisual, currentDropTarget>>
       ELSE /\ currentDropVisual' = dropStateRef'.visual
            /\ currentDropTarget' = dropStateRef'.target
    /\ UNCHANGED <<hook, parent, draggedEntity, currentDropPosition, lastDropResult>>

\* a release that commits and leaves the session record as it was
ProviderDragEndKeepingSession(e) ==
    /\ hook = "provider"
    /\ ev = NoEvent
    /\ pre' = Snapshot
    /\ ev' = e
    /\ calls' = ProviderEndCalls(dropStateRef)
    /\ lastDropResult' = ProviderEndResult(dropStateRef, lastDropResult)
    /\ draggedEntity' = Null
    /\ currentDropVisual' = NullZone
    /\ currentDropTarget' = Null
    /\ UNCHANGED <<hook, parent, currentDropPosition, dropStateRef>>

ProviderDragEnd(e) ==
    /\ hook = "provider"
    /\ ev = NoEvent
    /\ pre' = Snapshot
    /\ ev' = e
    /\ calls' = ProviderEndCalls(dropStateRef)
    /\ lastDropResult' = ProviderEndResult(dropStateRef, lastDropResult)
    /\ draggedEntity' = Null
    /\ currentDropVisual' = NullZone
    /\ currentDropTarget' = Null
    /\ dropStateRef' = ResetState
    /\ UNCHANGED <<hook, parent, currentDropPosition>>

\* a cancel that clears the hover as clearDropState does and keeps the drag
ProviderDragCancelClearingHoverOnly ==
    /\ hook = "provider"
    /\ ev = NoEvent
    /\ pre' = Snapshot
    /\ ev' = [NoEvent EXCEPT !.op = "cancel"]
    /\ calls' = <<>>
    /\ currentDropVisual' = NullZone
    /\ currentDropTarget' = Null
    /\ dropStateRef' = ClearDropState(dropStateRef)
    /\ UNCHANGED <<hook, parent, draggedEntity, currentDropPosition, lastDropResult>>

ProviderDragCancel ==
    /\ hook = "provider"
    /\ ev = NoEvent
    /\ pre' = Snapshot
    /\ ev' = [NoEvent EXCEPT !.op = "cancel"]
    /\ calls' = <<>>
    /\ draggedEntity' = Null
    /\ currentDropVisual' = NullZone
    /\ currentDropTarget' = Null
    /\ dropStateRef' = ResetState
    /\ UNCHANGED <<hook, parent, currentDropPosition, lastDropResult>>

(***************************************************************************)
(* The events the sensor and the rendered tree can deliver.  A field a     *)
(* handler does not reach keeps its default, so that two events the        *)
(* handler cannot tell apart are one event.                                *)
(***************************************************************************)
\* activator clientY and event.delta.y: the pointer went down in the top band
\* or in the middle of the rectangle and has stayed or moved down since
ClientYs == {RectTop + RectHeight \div 10, RectTop + RectHeight \div 2}
DeltaYs == {0, (2 * RectHeight) \div 5}
PointerYs == {c + d : c \in ClientYs, d \in DeltaYs}

\* evaluateDrop results: { canDrop: false } or { canDrop: true, visual, dropData },
\* dropData being whatever the provider chooses (TDropData = unknown), null included
Evaluations ==
    {[canDrop |-> FALSE, visual |-> NullZone, dropData |-> Null]}
    \cup [canDrop : {TRUE}, visual : DropVisuals, dropData : Payloads \cup {Null}]

ConfigStartEvents ==
    {[NoEvent EXCEPT !.op = "start"]}
    \cup {[NoEvent EXCEPT !.op = "start", !.entity = x, !.sectionCb = s, !.serviceCb = c] :
            x \in Entities, s \in Callbacks, c \in Callbacks}

ProviderStartEvents ==
    {[NoEvent EXCEPT !.op = "start"]}
    \cup {[NoEvent EXCEPT !.op = "start", !.entity = x] : x \in Entities}
    \cup {[NoEvent EXCEPT !.op = "start", !.entity = x, !.provider = p, !.sectionCb = s] :
            x \in Entities, p \in Providers, s \in {"true", "false"}}

\* the values of an event field: S when the handler reaches the field
When(reached, S, default) == IF reached THEN S ELSE {default}

ConfigEndEvents(ref) ==
    LET populated == ref.target # Null /\ ref.position # NullZone
                     /\ ref.draggedEntity # Null
    IN  {e \in {[NoEvent EXCEPT !.op = "end", !.itemIsEntity = i, !.carrier = c,
                                !.onDrop = d, !.performDrop = f] :
                    i \in When(populated, BOOLEAN, FALSE),
                    c \in When(populated, BOOLEAN, FALSE),
                    d \in When(populated, {"unset", "pass", "prevent"}, "unset"),
                    f \in When(populated, BOOLEAN, FALSE)} :
            /\ e.carrier => e.itemIsEntity
            /\ (e.onDrop # "unset" \/ e.performDrop) => e.carrier
            /\ e.performDrop => e.onDrop # "prevent"}

(***************************************************************************)
(* The hook under events in any order.                                     *)
(***************************************************************************)
HookInit ==
    /\ hook \in {"config", "provider"}
    /\ parent \in Forests
    \* only the config-object hook reads the graph (the tree items' children)
    /\ hook = "provider" => \A e \in Entities : parent[e] = Null
    /\ draggedEntity = Null
    /\ currentDropPosition = NullZone
    /\ currentDropVisual = NullZone
    /\ currentDropTarget = Null
    /\ lastDropResult = NoResult
    /\ dropStateRef = ResetState
    /\ overEntity = Null
    /\ ev = NoEvent
    /\ calls = <<>>
    /\ pre = NoSnapshot
    /\ active = "none"

\* Which over element the stored hover target came from: set by the hover
\* update that stores a target, kept by a handler that leaves the target alone.
TrackOver ==
    overEntity' = IF dropStateRef'.target = Null THEN Null
                  ELSE IF ev'.op = "move" /\ ev'.pointerY # NoCoords THEN ev'.entity
                  ELSE overEntity

OnDragStart ==
    /\ \/ hook = "config" /\ ev = NoEvent
            /\ \E e \in ConfigStartEvents : ConfigDragStart(e)
       \/ hook = "provider" /\ ev = NoEvent
            /\ \E e \in ProviderStartEvents : ProviderDragStart(e)
    /\ TrackOver

\* A move event: the over element (its entity and its config or provider), the
\* pointer, and what the handler goes on to read once the preliminary checks
\* have passed and the pointer has coordinates.
ConfigMoveEvent ==
    \E v \in BOOLEAN : \E x \in When(v, Entities \cup {Null}, Null) :
    \E c \in When(v, BOOLEAN, FALSE) :
        LET o == [NoEvent EXCEPT !.op = "move", !.over = v, !.entity = x, !.carrier = c]
            reached == ~MoveDegrades(dropStateRef.draggedEntity, o)
        IN
        \E y \in When(reached, PointerYs \cup {NoCoords}, NoCoords) :
        LET after == y # NoCoords
                     /\ CalculateDropPosition(y, RectTop, RectHeight) = "after"
            kids == after /\ Len(TreeItemChildren(parent, GetEntityId(x))) > 0
        IN
        \E i \in When(after, BOOLEAN, FALSE) : \E p \in When(i, BOOLEAN, FALSE) :
        \E k \in When(p /\ kids, BOOLEAN, FALSE) : \E h \in When(p /\ kids, BOOLEAN, FALSE) :
        \E s \in When(y # NoCoords, Callbacks, "unset") :
        \E cb \in When(y # NoCoords, Callbacks, "unset") :
            ConfigDragMove([o EXCEPT !.pointerY = y, !.itemIsEntity = i, !.open = p,
                                     !.childIsEntity = k, !.childHasConfig = h,
                                     !.sectionCb = s, !.serviceCb = cb])

ProviderMoveEvent ==
    \E v \in BOOLEAN : \E x \in When(v, Entities \cup {Null}, Null) :
    \E p \in When(v, Providers \cup {Null}, Null) :
        LET o == [NoEvent EXCEPT !.op = "move", !.over = v, !.entity = x,
                                 !.provider = p, !.carrier = (p # Null)]
            reached == ~MoveDegrades(dropStateRef.draggedEntity, o)
        IN
        \E y \in When(reached, PointerYs \cup {NoCoords}, NoCoords) :
        \E r \in When(y # NoCoords, Evaluations,
                      [canDrop |-> FALSE, visual |-> NullZone, dropData |-> Null]) :
            ProviderDragMove([o EXCEPT !.pointerY = y, !.canDrop = r.canDrop,
                                       !.visual = r.visual, !.dropData = r.dropData])

OnDragMove ==
    /\ \/ hook = "config" /\ ev = NoEvent /\ ConfigMoveEvent
       \/ hook = "provider" /\ ev = NoEvent /\ ProviderMoveEvent
    /\ TrackOver

OnDragEnd ==
    /\ \/ hook = "config" /\ ev = NoEvent
            /\ \E e \in ConfigEndEvents(dropStateRef) : ConfigDragEnd(e)
       \/ ProviderDragEnd([NoEvent EXCEPT !.op = "end"])
    /\ TrackOver

OnDragCancel == (ConfigDragCancel \/ ProviderDragCancel) /\ TrackOver

\* the handler returns: the event loop holds no event until the next one
Return ==
    /\ ev # NoEvent
    /\ ev' = NoEvent
    /\ calls' = <<>>
    /\ pre' = NoSnapshot
    /\ UNCHANGED <<hook, parent, draggedEntity, currentDropPosition, currentDropVisual,
                   currentDropTarget, lastDropResult, dropStateRef, overEntity>>

NoProviderInput == [stage |-> "none"]

Init == HookInit /\ pv = NoProviderInput

Next ==
    \/ OnDragStart /\ UNCHANGED <<active, pv>>
    \/ OnDragMove /\ UNCHANGED <<active, pv>>
    \/ OnDragEnd /\ UNCHANGED <<active, pv>>
    \/ OnDragCancel /\ UNCHANGED <<active, pv>>
    \/ Return /\ UNCHANGED <<active, pv>>

Spec == Init /\ [][Next]_vars

(***************************************************************************)
(* The hook under the sensor's protocol: a start, any number of moves,     *)
(* then an end or a cancel.                                                *)
(***************************************************************************)
\* what a start did for the gesture it opens: "accepted" (a dragged entity was
\* set), "rejected" (a canDrag callback returned false), "empty" (the active
\* element carried no entity)
StartKind(e) ==
    IF e.entity = Null THEN "empty"
    ELSE IF e.sectionCb = "false" \/ e.serviceCb = "false" THEN "rejected"
    ELSE "accepted"

SensorStart == active = "none" /\ OnDragStart /\ active' = StartKind(ev') /\ UNCHANGED pv
SensorMove == active # "none" /\ OnDragMove /\ UNCHANGED <<active, pv>>
SensorEnd == active # "none" /\ OnDragEnd /\ active' = "none" /\ UNCHANGED pv
SensorCancel == active # "none" /\ OnDragCancel /\ active' = "none" /\ UNCHANGED pv

SensorReturn == Return /\ UNCHANGED <<active, pv>>

SensorNext == SensorStart \/ SensorMove \/ SensorEnd \/ SensorCancel \/ SensorReturn

SpecSensor == Init /\ [][SensorNext]_vars

(***************************************************************************)
(* The earlier revision of the config-object hook (part_000, second half): *)
(* no canDrag, no canDrop parameter, no lastDropResult; the consumer       *)
(* callbacks are onDragDrop and onDropped.                                 *)
(***************************************************************************)
\* onDragMove applies the redirect: "after" an expanded entity item whose first
\* child is an entity item other than the dragged entity
EarlierRedirects(par, dragged, e) ==
    LET children == TreeItemChildren(par, GetEntityId(e.entity)) IN
    /\ CalculateDropPosition(e.pointerY, RectTop, RectHeight) = "after"
    /\ e.itemIsEntity /\ Len(children) > 0 /\ e.open
    /\ e.childIsEntity /\ children[1] # dragged

\* dropStateRef.current after onDragMove of the earlier hook: a redirect is
\* stored and the handler returns; otherwise the hovered target's canDrop decides
EarlierMoveRef(ref, par, e) ==
    LET dragged == ref.draggedEntity
        cleared == [ref EXCEPT !.position = NullZone, !.target = Null]
    IN  IF MoveDegrades(dragged, e) THEN cleared
        ELSE IF e.pointerY = NoCoords THEN ref
        ELSE IF EarlierRedirects(par, dragged, e)
        THEN [ref EXCEPT !.position = "before",
                         !.target = TreeItemChildren(par, GetEntityId(e.entity))[1]]
        ELSE IF Approves(e.sectionCb)
        THEN [ref EXCEPT !.position = CalculateDropPosition(e.pointerY, RectTop, RectHeight),
                         !.target = e.entity]
        ELSE cleared

\* the callbacks onDragMove of the earlier hook invokes
EarlierMoveCalls(ref, par, e) ==
    LET dragged == ref.draggedEntity IN
    IF MoveDegrades(dragged, e) \/ e.pointerY = NoCoords THEN <<>>
    ELSE IF EarlierRedirects(par, dragged, e) \/ e.sectionCb = "unset" THEN <<>>
    ELSE <<Call("section.canDrop", e.entity, dragged, e.entity,
                CalculateDropPosition(e.pointerY, RectTop, RectHeight), Null)>>

\* the callbacks onDragEnd of the earlier hook invokes, in order
EarlierEndCalls(ref, e) ==
    IF ~ConfigCommits(ref, e) THEN <<>>
    ELSE (IF e.onDrop = "unset" THEN <<>>
          ELSE <<Call("onDragDrop", Null, ref.draggedEntity, ref.target, ref.position, Null)>>)
         \o (IF e.onDrop = "prevent" THEN <<>>
             ELSE (IF e.performDrop
                   THEN <<Call("section.performDrop", ref.draggedEntity,
                               ref.draggedEntity, ref.target, ref.position, Null)>>
                   ELSE <<>>)
                  \o (IF e.onDropped
                      THEN <<Call("onDropped", Null, ref.draggedEntity, ref.target,
                                  ref.position, Null)>>
                      ELSE <<>>))

EarlierDragStart(e) ==
    /\ hook = "earlier"
    /\ ev = NoEvent
    /\ pre' = Snapshot
    /\ ev' = e
    /\ calls' = <<>>
    /\ IF e.entity = Null
       THEN UNCHANGED <<draggedEntity, dropStateRef>>
       ELSE /\ draggedEntity' = e.entity
            /\ dropStateRef' = [dropStateRef EXCEPT !.draggedEntity = e.entity]
    /\ UNCHANGED <<hook, parent, currentDropPosition, currentDropVisual,
                   currentDropTarget, lastDropResult>>

EarlierDragMove(e) ==
    /\ hook = "earlier"
    /\ ev = NoEvent
    /\ pre' = Snapshot
    /\ ev' = e
    /\ dropStateRef' = EarlierMoveRef(dropStateRef, parent, e)
    /\ calls' = EarlierMoveCalls(dropStateRef, parent, e)
    /\ IF ~MoveDegrades(dropStateRef.draggedEntity, e) /\ e.pointerY = NoCoords
       THEN UNCHANGED <<currentDropPosition, currentDropTarget>>
       ELSE /\ currentDropPosition' = dropStateRef'.position
            /\ currentDropTarget' = dropStateRef'.target
    /\ UNCHANGED <<hook, parent, draggedEntity, currentDropVisual, lastDropResult>>

EarlierDragEnd(e) ==
    /\ hook = "earlier"
    /\ ev = NoEvent
    /\ pre' = Snapshot
    /\ ev' = e
    /\ calls' = EarlierEndCalls(dropStateRef, e)
    /\ draggedEntity' = Null
    /\ currentDropPosition' = NullZone
    /\ currentDropTarget' = Null
    /\ dropStateRef' = ResetState
    /\ UNCHANGED <<hook, parent, currentDropVisual, lastDropResult>>

EarlierDragCancel ==
    /\ hook = "earlier"
    /\ ev = NoEvent
    /\ pre' = Snapshot
    /\ ev' = [NoEvent EXCEPT !.op = "cancel"]
    /\ calls' = <<>>
    /\ draggedEntity' = Null
    /\ currentDropPosition' = NullZone
    /\ currentDropTarget' = Null
    /\ dropStateRef' = ResetState
    /\ UNCHANGED <<hook, parent, currentDropVisual, lastDropResult>>

EarlierStartEvents ==
    {[NoEvent EXCEPT !.op = "start", !.entity = x] : x \in Entities \cup {Null}}

\* A move event of the earlier hook.  sectionCb is what the canDrop of the over
\* element's config answers for the drop the hover resolves to, whether or not
\* the handler asks.
EarlierMoveEvent ==
    \E v \in BOOLEAN : \E x \in When(v, Entities \cup {Null}, Null) :
    \E c \in When(v, BOOLEAN, FALSE) :
        LET o == [NoEvent EXCEPT !.op = "move", !.over = v, !.entity = x, !.carrier = c]
            reached == ~MoveDegrades(dropStateRef.draggedEntity, o)
        IN
        \E y \in When(reached, PointerYs \cup {NoCoords}, NoCoords) :
        LET after == y # NoCoords
                     /\ CalculateDropPosition(y, RectTop, RectHeight) = "after"
            kids == after /\ Len(TreeItemChildren(parent, GetEntityId(x))) > 0
        IN
        \E i \in When(after, BOOLEAN, FALSE) : \E p \in When(i, BOOLEAN, FALSE) :
        \E k \in When(p /\ kids, BOOLEAN, FALSE) :
        \E s \in When(y # NoCoords, Callbacks, "unset") :
            EarlierDragMove([o EXCEPT !.pointerY = y, !.itemIsEntity = i, !.open = p,
                                      !.childIsEntity = k, !.sectionCb = s])

EarlierEndEvent ==
    \E e \in ConfigEndEvents(dropStateRef) :
    \E n \in When(e.carrier /\ e.onDrop # "prevent", BOOLEAN, FALSE) :
        EarlierDragEnd([e EXCEPT !.onDropped = n])

EarlierInit ==
    /\ hook = "earlier"
    /\ parent \in Forests
    /\ draggedEntity = Null
    /\ currentDropPosition = NullZone
    /\ currentDropVisual = NullZone
    /\ currentDropTarget = Null
    /\ lastDropResult = NoResult
    /\ dropStateRef = ResetState
    /\ overEntity = Null
    /\ ev = NoEvent
    /\ calls = <<>>
    /\ pre = NoSnapshot
    /\ active = "none"
    /\ pv = NoProviderInput

EarlierStart ==
    /\ hook = "earlier" /\ ev = NoEvent
    /\ \E e \in EarlierStartEvents : EarlierDragStart(e)
    /\ TrackOver /\ UNCHANGED <<active, pv>>

EarlierMove ==
    /\ hook = "earlier" /\ ev = NoEvent
    /\ EarlierMoveEvent
    /\ TrackOver /\ UNCHANGED <<active, pv>>

EarlierEnd ==
    /\ hook = "earlier" /\ ev = NoEvent
    /\ EarlierEndEvent
    /\ TrackOver /\ UNCHANGED <<active, pv>>

EarlierCancel == EarlierDragCancel /\ TrackOver /\ UNCHANGED <<active, pv>>

EarlierReturn == Return /\ UNCHANGED <<active, pv>>

EarlierNext == EarlierStart \/ EarlierMove \/ EarlierEnd \/ EarlierCancel \/ EarlierReturn

SpecEarlier == EarlierInit /\ [][EarlierNext]_vars

(***************************************************************************)
(* The reference providers (reorderDragProvider.ts).  evaluateDrop is a    *)
(* pure function of the scene graph, the two nodes, the pointer and the    *)
(* target rectangle; steps lists what it evaluated, in order.              *)
(***************************************************************************)
\* { canDrop: false }
Rejected(steps) ==
    [canDrop |-> FALSE, visual |-> NullZone, action |-> "null", newParent |-> Null,
     position |-> NullZone, referenceNode |-> Null, steps |-> steps]

\* the reorder provider with a cycle check that stops at the direct children
ReorderEvaluateDropShallowCycleCheck(par, dragged, target, pointerY, top, height, disabled) ==
    IF target = dragged \/ par[target] = dragged
    THEN Rejected(<<"cycle">>)
    ELSE IF disabled = "true"
    THEN [canDrop |-> TRUE, visual |-> "border", action |-> "reparent",
          newParent |-> target, position |-> NullZone, referenceNode |-> Null,
          steps |-> <<"cycle", "disabled">>]
    ELSE LET steps == IF disabled = "unset" THEN <<"cycle", "zone">>
                      ELSE <<"cycle", "disabled", "zone">>
         IN  IF 100 * (pointerY - top) < ReorderTopPercent * height
             THEN [canDrop |-> TRUE, visual |-> "edgeTop", action |-> "reorder",
                   newParent |-> par[target], position |-> "before",
                   referenceNode |-> target, steps |-> steps]
             ELSE IF 100 * (pointerY - top) > ReorderBottomPercent * height
             THEN [canDrop |-> TRUE, visual |-> "edgeBottom", action |-> "reorder",
                   newParent |-> par[target], position |-> "after",
                   referenceNode |-> target, steps |-> steps]
             ELSE [canDrop |-> TRUE, visual |-> "border", action |-> "reparent",
                   newParent |-> target, position |-> NullZone,
                   referenceNode |-> Null, steps |-> steps]

\* an evaluation that rejects only the dragged node itself
ReorderEvaluateDropSelfCheckOnly(par, dragged, target, pointerY, top, height, disabled) ==
    IF target = dragged
    THEN Rejected(<<"cycle">>)
    ELSE IF disabled = "true"
    THEN [canDrop |-> TRUE, visual |-> "border", action |-> "reparent",
          newParent |-> target, position |-> NullZone, referenceNode |-> Null,
          steps |-> <<"cycle", "disabled">>]
    ELSE LET steps == IF disabled = "unset" THEN <<"cycle", "zone">>
                      ELSE <<"cycle", "disabled", "zone">>
         IN  IF 100 * (pointerY - top) < ReorderTopPercent * height
             THEN [canDrop |-> TRUE, visual |-> "edgeTop", action |-> "reorder",
                   newParent |-> par[target], position |-> "before",
                   referenceNode |-> target, steps |-> steps]
             ELSE IF 100 * (pointerY - top) > ReorderBottomPercent * height
             THEN [canDrop |-> TRUE, visual |-> "edgeBottom", action |-> "reorder",
                   newParent |-> par[target], position |-> "after",
                   referenceNode |-> target, steps |-> steps]
             ELSE [canDrop |-> TRUE, visual |-> "border", action |-> "reparent",
                   newParent |-> target, position |-> NullZone,
                   referenceNode |-> Null, steps |-> steps]

\* an evaluation that does not consult isSiblingReorderDisabled
ReorderEvaluateDropIgnoringToggle(par, dragged, target, pointerY, top, height, disabled) ==
    IF target = dragged \/ IsDescendantOf(par, target, dragged)
    THEN Rejected(<<"cycle">>)
    ELSE IF FALSE
    THEN [canDrop |-> TRUE, visual |-> "border", action |-> "reparent",
          newParent |-> target, position |-> NullZone, referenceNode |-> Null,
          steps |-> <<"cycle", "disabled">>]
    ELSE LET steps == IF disabled = "unset" THEN <<"cycle", "zone">>
                      ELSE <<"cycle", "disabled", "zone">>
         IN  IF 100 * (pointerY - top) < ReorderTopPercent * height
             THEN [canDrop |-> TRUE, visual |-> "edgeTop", action |-> "reorder",
                   newParent |-> par[target], position |-> "before",
                   referenceNode |-> target, steps |-> steps]
             ELSE IF 100 * (pointerY - top) > ReorderBottomPercent * height
             THEN [canDrop |-> TRUE, visual |-> "edgeBottom", action |-> "reorder",
                   newParent |-> par[target], position |-> "after",
                   referenceNode |-> target, steps |-> steps]
             ELSE [canDrop |-> TRUE, visual |-> "border", action |-> "reparent",
                   newParent |-> target, position |-> NullZone,
                   referenceNode |-> Null, steps |-> steps]

\* an evaluation whose edge zones include their thresholds
ReorderEvaluateDropInclusiveEdges(par, dragged, target, pointerY, top, height, disabled) ==
    IF target = dragged \/ IsDescendantOf(par, target, dragged)
    THEN Rejected(<<"cycle">>)
    ELSE IF disabled = "true"
    THEN [canDrop |-> TRUE, visual |-> "border", action |-> "reparent",
          newParent |-> target, position |-> NullZone, referenceNode |-> Null,
          steps |-> <<"cycle", "disabled">>]
    ELSE LET steps == IF disabled = "unset" THEN <<"cycle", "zone">>
                      ELSE <<"cycle", "disabled", "zone">>
         IN  IF 100 * (pointerY - top) <= ReorderTopPercent * height
             THEN [canDrop |-> TRUE, visual |-> "edgeTop", action |-> "reorder",
                   newParent |-> par[target], position |-> "before",
                   referenceNode |-> target, steps |-> steps]
             ELSE IF 100 * (pointerY - top) >= ReorderBottomPercent * height
             THEN [canDrop |-> TRUE, visual |-> "edgeBottom", action |-> "reorder",
                   newParent |-> par[target], position |-> "after",
                   referenceNode |-> target, steps |-> steps]
             ELSE [canDrop |-> TRUE, visual |-> "border", action |-> "reparent",
                   newParent |-> target, position |-> NullZone,
                   referenceNode |-> Null, steps |-> steps]

\* createReorderDragProvider(isSiblingReorderDisabled).evaluateDrop.
\* relativeY = (pointerY - top) / height is compared with 0.15 and 0.85; for a
\* height >= 0 the comparisons are those of the cross-multiplied integers
\* (a zero height makes relativeY -Infinity, NaN or +Infinity, which compare
\* as the sign of pointerY - top does).
ReorderEvaluateDrop(par, dragged, target, pointerY, top, height, disabled) ==
    IF target = dragged \/ IsDescendantOf(par, target, dragged)
    THEN Rejected(<<"cycle">>)
    ELSE IF disabled = "true"
    THEN [canDrop |-> TRUE, visual |-> "border", action |-> "reparent",
          newParent |-> target, position |-> NullZone, referenceNode |-> Null,
          steps |-> <<"cycle", "disabled">>]
    ELSE LET steps == IF disabled = "unset" THEN <<"cycle", "zone">>
                      ELSE <<"cycle", "disabled", "zone">>
         IN  IF 100 * (pointerY - top) < ReorderTopPercent * height
             THEN [canDrop |-> TRUE, visual |-> "edgeTop", action |-> "reorder",
                   newParent |-> par[target], position |-> "before",
                   referenceNode |-> target, steps |-> steps]
             ELSE IF 100 * (pointerY - top) > ReorderBottomPercent * height
             THEN [canDrop |-> TRUE, visual |-> "edgeBottom", action |-> "reorder",
                   newParent |-> par[target], position |-> "after",
                   referenceNode |-> target, steps |-> steps]
             ELSE [canDrop |-> TRUE, visual |-> "border", action |-> "reparent",
                   newParent |-> target, position |-> NullZone,
                   referenceNode |-> Null, steps |-> steps]

\* createReparentDragProvider(setParent, isDescendantOf).evaluateDrop, with the
\* scene graph's descendant check as isDescendantOf
ReparentEvaluateDrop(par, dragged, target) ==
    IF target = dragged \/ IsDescendantOf(par, target, dragged)
    THEN Rejected(<<"cycle">>)
    ELSE [canDrop |-> TRUE, visual |-> "border", action |-> "null",
          newParent |-> target, position |-> NullZone, referenceNode |-> Null,
          steps |-> <<"cycle">>]

\* an onDrop that hands setParent its arguments the other way round
ReparentOnDropSwapped(dragged, dropData) ==
    <<[entity |-> dropData.newParent, newParent |-> dragged]>>

\* createReparentDragProvider(setParent, isDescendantOf).onDrop: the calls of
\* setParent it makes
ReparentOnDrop(dragged, dropData) ==
    <<[entity |-> dragged, newParent |-> dropData.newParent]>>

\* pointer positions above, on, inside and below the rectangle, with the
\* neighbours of both thresholds
ProviderPointerYs ==
    {RectTop + k : k \in {-1, 0, (ReorderTopPercent * RectHeight) \div 100 - 1,
                          (ReorderTopPercent * RectHeight) \div 100,
                          RectHeight \div 2,
                          (ReorderBottomPercent * RectHeight) \div 100,
                          (ReorderBottomPercent * RectHeight) \div 100 + 1,
                          RectHeight + 1}}

ProvidersInit ==
    /\ hook = "provider"
    /\ parent \in Forests
    /\ draggedEntity = Null
    /\ currentDropPosition = NullZone
    /\ currentDropVisual = NullZone
    /\ currentDropTarget = Null
    /\ lastDropResult = NoResult
    /\ dropStateRef = ResetState
    /\ overEntity = Null
    /\ ev = NoEvent
    /\ calls = <<>>
    /\ pre = NoSnapshot
    /\ active = "none"
    /\ pv \in [stage : {"input"}, dragged : Entities, target : Entities,
               pointerY : ProviderPointerYs, height : {0, RectHeight},
               disabled : Callbacks, result : {Rejected(<<>>)},
               setParent : {<<>>}]

EvaluateReorder ==
    /\ pv.stage = "input"
    /\ pv' = [pv EXCEPT !.stage = "reorder",
                        !.result = ReorderEvaluateDrop(parent, pv.dragged, pv.target,
                                       pv.pointerY, RectTop, pv.height, pv.disabled)]
    /\ UNCHANGED hookVars

EvaluateReparent ==
    /\ pv.stage = "input"
    /\ pv' = [pv EXCEPT !.stage = "reparent",
                        !.result = ReparentEvaluateDrop(parent, pv.dragged, pv.target)]
    /\ UNCHANGED hookVars

\* the hook hands the reparent provider's onDrop the dropData of its evaluation
DropReparent ==
    /\ pv.stage = "reparent"
    /\ pv.result.canDrop
    /\ pv' = [pv EXCEPT !.stage = "reparentDrop",
                        !.setParent = ReparentOnDrop(pv.dragged,
                                          [newParent |-> pv.result.newParent])]
    /\ UNCHANGED hookVars

ProvidersNext == EvaluateReorder \/ EvaluateReparent \/ DropReparent

SpecProviders == ProvidersInit /\ [][ProvidersNext]_vars

(***************************************************************************)
(* calculateDropPosition as a function of the pointer and the rectangle:   *)
(* onDragMove passes it clientY + delta.y and over.rect.                   *)
(***************************************************************************)
\* every height up to the rectangle's, the zero height included
ClassifierHeights == 0..RectHeight

\* activator positions from above the rectangle to below it
ClassifierClientYs == (RectTop - 2)..(RectTop + RectHeight + 1)

ClassifierDeltaYs == {0, 1}

ClassifierInit ==
    /\ hook = "config"
    /\ parent = [e \in Entities |-> Null]
    /\ draggedEntity = Null
    /\ currentDropPosition = NullZone
    /\ currentDropVisual = NullZone
    /\ currentDropTarget = Null
    /\ lastDropResult = NoResult
    /\ dropStateRef = ResetState
    /\ overEntity = Null
    /\ ev = NoEvent
    /\ calls = <<>>
    /\ pre = NoSnapshot
    /\ active = "none"
    /\ pv \in [stage : {"pointer"}, clientY : ClassifierClientYs,
               deltaY : ClassifierDeltaYs, height : ClassifierHeights,
               position : {NullZone}]

\* const currentY = clientY + event.delta.y; calculateDropPosition(currentY, overRect)
Classify ==
    /\ pv.stage = "pointer"
    /\ pv' = [pv EXCEPT !.stage = "classified",
                        !.position = CalculateDropPosition(pv.clientY + pv.deltaY,
                                                           RectTop, pv.height)]
    /\ UNCHANGED hookVars

ClassifierNext == Classify

SpecClassifier == ClassifierInit /\ [][ClassifierNext]_vars

(***************************************************************************)
(* The reorder provider's onDrop: the sibling splice.                      *)
(***************************************************************************)
\* Array.prototype.indexOf: the zero-based index of the first x, or -1
IndexOf(array, x) ==
    IF \E i \in 1..Len(array) : array[i] = x
    THEN (CHOOSE i \in 1..Len(array) :
              array[i] = x /\ \A j \in 1..(i - 1) : array[j] # x) - 1
    ELSE -1

\* array.splice(index, 1)
SpliceOut(array, index) ==
    [k \in 1..(Len(array) - 1) |-> IF k <= index THEN array[k] ELSE array[k + 1]]

\* array.splice(index, 0, x); an index past the end inserts at the end
SpliceIn(array, index, x) ==
    LET at == IF index > Len(array) THEN Len(array) ELSE index IN
    [k \in 1..(Len(array) + 1) |->
        IF k <= at THEN array[k] ELSE IF k = at + 1 THEN x ELSE array[k - 1]]

\* draggedIndex !== -1 && referenceIndex !== -1 && draggedIndex !== referenceIndex
ReorderMoves(siblings, dragged, referenceNode) ==
    /\ IndexOf(siblings, dragged) # -1
    /\ IndexOf(siblings, referenceNode) # -1
    /\ IndexOf(siblings, dragged) # IndexOf(siblings, referenceNode)

\* a splice that inserts at the reference's index without adjusting for the removal
ReorderSiblingsUnadjusted(siblings, dragged, referenceNode, position) ==
    LET draggedIndex == IndexOf(siblings, dragged)
        referenceIndex == IndexOf(siblings, referenceNode)
    IN  IF ~ReorderMoves(siblings, dragged, referenceNode) THEN siblings
        ELSE SpliceIn(SpliceOut(siblings, draggedIndex),
                      IF position = "after" THEN referenceIndex + 1 ELSE referenceIndex,
                      dragged)

\* onDrop, reorder action: the siblings array after the two splices
ReorderSiblings(siblings, dragged, referenceNode, position) ==
    LET draggedIndex == IndexOf(siblings, dragged)
        referenceIndex == IndexOf(siblings, referenceNode)
        insertIndex == IF draggedIndex < referenceIndex THEN referenceIndex - 1
                       ELSE referenceIndex
    IN  IF ~ReorderMoves(siblings, dragged, referenceNode) THEN siblings
        ELSE SpliceIn(SpliceOut(siblings, draggedIndex),
                      IF position = "after" THEN insertIndex + 1 ELSE insertIndex,
                      dragged)

\* the nodes a sibling collection is drawn from
Siblings == 1..NumSiblings

\* every arrangement of the members of S in an array without duplicates
Orderings(S) ==
    {q \in [1..Cardinality(S) -> S] : \A i, j \in 1..Cardinality(S) : q[i] = q[j] => i = j}

SiblingsInit ==
    /\ hook = "provider"
    /\ parent = [e \in Entities |-> Null]
    /\ draggedEntity = Null
    /\ currentDropPosition = NullZone
    /\ currentDropVisual = NullZone
    /\ currentDropTarget = Null
    /\ lastDropResult = NoResult
    /\ dropStateRef = ResetState
    /\ overEntity = Null
    /\ ev = NoEvent
    /\ calls = <<>>
    /\ pre = NoSnapshot
    /\ active = "none"
    /\ \E S \in SUBSET Siblings : \E q \in Orderings(S) :
       \E d \in Siblings : \E r \in Siblings : \E p \in {"before", "after"} :
           pv = [stage |-> "siblings", siblings |-> q, dragged |-> d,
                 referenceNode |-> r, position |-> p, result |-> q]

\* the reorder branch of onDrop applied to the sibling collection
ReorderDrop ==
    /\ pv.stage = "siblings"
    /\ pv' = [pv EXCEPT !.stage = "reordered",
                        !.result = ReorderSiblings(pv.siblings, pv.dragged,
                                                   pv.referenceNode, pv.position)]
    /\ UNCHANGED hookVars

SiblingsNext == ReorderDrop

SpecSiblings == SiblingsInit /\ [][SiblingsNext]_vars

(***************************************************************************)
(* The scene graph the reorder provider mutates: Node.parent, each node's  *)
(* _children array, scene.rootNodes and each node's cached                 *)
(* _sceneRootNodesIndex (-1 for a node that is not a root).                *)
(***************************************************************************)
\* the members of S in the order they have in array
Restrict(array, S) == SelectSeq(array, LAMBDA x : x \in S)

\* the scene of a parent relation whose arrays follow one arrangement of the nodes
SceneOf(par, order) ==
    LET roots == Restrict(order, {e \in Entities : par[e] = Null}) IN
    [par |-> par,
     children |-> [p \in Entities |-> Restrict(order, {e \in Entities : par[e] = p})],
     rootNodes |-> roots,
     rootIndex |-> [e \in Entities |-> IndexOf(roots, e)]]

Scenes == {SceneOf(par, order) : par \in Forests, order \in Orderings(Entities)}

\* Node._addToSceneRootNodes: push, caching the new index
AddToSceneRootNodes(sc, node) ==
    IF sc.rootIndex[node] # -1 THEN sc
    ELSE [sc EXCEPT !.rootIndex[node] = Len(sc.rootNodes),
                    !.rootNodes = Append(sc.rootNodes, node)]

\* Node._removeFromSceneRootNodes: the last root takes the cached index of the
\* node, then the array is popped
RemoveFromSceneRootNodes(sc, node) ==
    IF sc.rootIndex[node] = -1 THEN sc
    ELSE LET index == sc.rootIndex[node]
             last == sc.rootNodes[Len(sc.rootNodes)]
             moved == [sc.rootNodes EXCEPT ![index + 1] = last]
         IN  [sc EXCEPT !.rootNodes = SubSeq(moved, 1, Len(moved) - 1),
                        !.rootIndex = [@ EXCEPT ![last] = index, ![node] = -1]]

\* the Node.parent setter
NodeSetParent(sc, node, newParent) ==
    IF sc.par[node] = newParent THEN sc
    ELSE LET previous == sc.par[node]
             left == IF previous = Null THEN sc
                     ELSE [sc EXCEPT !.children[previous] =
                              SpliceOut(@, IndexOf(@, node))]
             rooted == IF newParent = Null THEN AddToSceneRootNodes(left, node)
                       ELSE left
             set == [rooted EXCEPT !.par[node] = newParent]
         IN  IF newParent = Null THEN set
             ELSE LET pushed == [set EXCEPT !.children[newParent] = Append(@, node)]
                  IN  IF previous = Null THEN RemoveFromSceneRootNodes(pushed, node)
                      ELSE pushed

\* a setNodeParent that leaves the node where it is
SetNodeParentIgnored(sc, node, newParent) == sc

\* setNodeParent: TransformNode.setParent keeps the world transform and then
\* assigns node.parent, as the other branch does
SetNodeParent(sc, node, newParent) == NodeSetParent(sc, node, newParent)

\* getChildrenArray(parent, node)
GetChildrenArray(sc, newParent) ==
    IF newParent # Null THEN sc.children[newParent] ELSE sc.rootNodes

\* updateRootNodeIndices(rootNodes)
UpdateRootNodeIndices(rootNodes, rootIndex) ==
    [e \in Entities |-> IF IndexOf(rootNodes, e) # -1 THEN IndexOf(rootNodes, e)
                        ELSE rootIndex[e]]

\* if (dragged.parent !== newParent) setNodeParent(dragged, newParent)
ReparentIfNeeded(sc, dragged, newParent) ==
    IF sc.par[dragged] # newParent THEN SetNodeParent(sc, dragged, newParent) ELSE sc

\* a reorder commit that leaves the cached root indices as they were
ReorderOnDropWithoutIndexUpdate(sc, dragged, dropData) ==
    IF dropData.action = "reparent"
    THEN ReparentIfNeeded(sc, dragged, dropData.newParent)
    ELSE LET newParent == dropData.newParent
             given == ReparentIfNeeded(sc, dragged, newParent)
             siblings == GetChildrenArray(given, newParent)
             spliced == ReorderSiblings(siblings, dragged, dropData.referenceNode,
                                        dropData.position)
         IN  IF ~ReorderMoves(siblings, dragged, dropData.referenceNode) THEN given
             ELSE IF newParent # Null
             THEN [given EXCEPT !.children[newParent] = spliced]
             ELSE [given EXCEPT !.rootNodes = spliced]

\* createReorderDragProvider.onDrop(dragged, _target, dropData)
ReorderOnDrop(sc, dragged, dropData) ==
    IF dropData.action = "reparent"
    THEN ReparentIfNeeded(sc, dragged, dropData.newParent)
    ELSE LET newParent == dropData.newParent
             given == ReparentIfNeeded(sc, dragged, newParent)
             siblings == GetChildrenArray(given, newParent)
             spliced == ReorderSiblings(siblings, dragged, dropData.referenceNode,
                                        dropData.position)
         IN  IF ~ReorderMoves(siblings, dragged, dropData.referenceNode) THEN given
             ELSE IF newParent # Null
             THEN [given EXCEPT !.children[newParent] = spliced]
             ELSE [given EXCEPT !.rootNodes = spliced,
                                !.rootIndex = UpdateRootNodeIndices(spliced, @)]

(***************************************************************************)
(* The provider-based hook with the reorder provider on every tree item,   *)
(* under the sensor's protocol: evaluateDrop is the provider's, its        *)
(* dropData objects live in a heap the hook holds references into, and a   *)
(* release runs the provider's onDrop on the scene.                        *)
(***************************************************************************)
\* the provider every tree item carries
ReorderProvider == 1

\* the heap cell no reference points to
NoDropData ==
    [action |-> "null", newParent |-> Null, position |-> NullZone, referenceNode |-> Null]

\* the dropData object of an evaluation
DropDataOf(r) ==
    [action |-> r.action, newParent |-> r.newParent, position |-> r.position,
     referenceNode |-> r.referenceNode]

\* pointer positions of a hover: in the top edge zone, on its threshold, in the
\* middle and in the bottom edge zone
ScenePointerYs ==
    {RectTop + k : k \in {(ReorderTopPercent * RectHeight) \div 100 - 1,
                          (ReorderTopPercent * RectHeight) \div 100,
                          RectHeight \div 2,
                          (ReorderBottomPercent * RectHeight) \div 100 + 1}}

SceneInit ==
    /\ hook = "provider"
    /\ parent = [e \in Entities |-> Null]
    /\ draggedEntity = Null
    /\ currentDropPosition = NullZone
    /\ currentDropVisual = NullZone
    /\ currentDropTarget = Null
    /\ lastDropResult = NoResult
    /\ dropStateRef = ResetState
    /\ overEntity = Null
    /\ ev = NoEvent
    /\ calls = <<>>
    /\ pre = NoSnapshot
    /\ active = "none"
    /\ \E sc \in Scenes : \E t \in Callbacks :
           pv = [stage |-> "scene", scene |-> sc, before |-> sc, toggle |-> t,
                 heap |-> [i \in Payloads |-> NoDropData], drops |-> 0]

SceneStart ==
    /\ active = "none" /\ hook = "provider" /\ ev = NoEvent
    /\ pv.drops < MaxDrops
    /\ \E x \in Entities :
           ProviderDragStart([NoEvent EXCEPT !.op = "start", !.entity = x,
                                             !.provider = ReorderProvider,
                                             !.sectionCb = "true"])
    /\ TrackOver
    /\ active' = StartKind(ev')
    /\ UNCHANGED pv

\* a hover over a tree item: the evaluation is the reorder provider's, on the
\* scene as it is and with what isSiblingReorderDisabled reports now
SceneMoveEvent ==
    \E v \in BOOLEAN : \E x \in When(v, Entities, Null) :
        LET o == [NoEvent EXCEPT !.op = "move", !.over = v, !.entity = x,
                                 !.provider = IF v THEN ReorderProvider ELSE Null,
                                 !.carrier = v]
            reached == ~MoveDegrades(dropStateRef.draggedEntity, o)
        IN
        \E y \in When(reached, ScenePointerYs \cup {NoCoords}, NoCoords) :
        LET r == IF y # NoCoords
                 THEN ReorderEvaluateDrop(pv.scene.par, dropStateRef.draggedEntity, x,
                                          y, RectTop, RectHeight, pv.toggle)
                 ELSE Rejected(<<>>)
            id == CHOOSE i \in Payloads : i # dropStateRef.dropData
        IN  /\ ProviderDragMove([o EXCEPT !.pointerY = y, !.canDrop = r.canDrop,
                                          !.visual = r.visual,
                                          !.dropData = IF r.canDrop THEN id ELSE Null])
            /\ pv' = IF r.canDrop THEN [pv EXCEPT !.heap[id] = DropDataOf(r)] ELSE pv

SceneMove ==
    /\ active # "none" /\ hook = "provider" /\ ev = NoEvent
    /\ SceneMoveEvent
    /\ TrackOver
    /\ UNCHANGED active

\* a release: the provider.onDrop the hook invokes runs on the scene, with the
\* object the dropData reference points to
SceneEnd ==
    /\ active # "none"
    /\ ProviderDragEnd([NoEvent EXCEPT !.op = "end"])
    /\ TrackOver
    /\ active' = "none"
    /\ pv' = IF calls' # <<>> /\ calls'[1].fn = "provider.onDrop"
             THEN [pv EXCEPT !.before = pv.scene,
                             !.scene = ReorderOnDrop(pv.scene, calls'[1].dragged,
                                                     pv.heap[calls'[1].data]),
                             !.drops = @ + 1]
             ELSE pv

SceneCancel ==
    /\ active # "none"
    /\ ProviderDragCancel
    /\ TrackOver
    /\ active' = "none"
    /\ UNCHANGED pv

\* the handler returns; dropData objects the hook no longer refers to are gone
SceneReturn ==
    /\ Return
    /\ pv' = [pv EXCEPT !.before = pv.scene,
                        !.heap = [i \in Payloads |->
                                    IF i = dropStateRef.dropData THEN pv.heap[i]
                                    ELSE NoDropData]]
    /\ UNCHANGED active

\* the sort toggle behind isSiblingReorderDisabled changes between two events
ToggleSort ==
    /\ ev = NoEvent
    /\ pv.toggle # "unset"
    /\ pv' = [pv EXCEPT !.toggle = IF @ = "true" THEN "false" ELSE "true"]
    /\ UNCHANGED hookVars

SceneNext ==
    \/ SceneStart
    \/ SceneMove
    \/ SceneEnd
    \/ SceneCancel
    \/ SceneReturn
    \/ ToggleSort

SpecScene == SceneInit /\ [][SceneNext]_vars

(***************************************************************************)
(* The scene explorer service: the drag-to-reparent toggle, its            *)
(* observable, and the onDrop, canDrag and canDrop properties.             *)
(***************************************************************************)
\* the values a callback property takes: undefined (Null) or a function
ServiceCallbacks == {Null} \cup (1..NumCallbacks)

CallbackProperties == {"onDrop", "canDrag", "canDrop"}

\* no accessor has run yet
NoAccess == [kind |-> "none", property |-> "none"]

\* the closure of the factory after construction; read is what the last getter
\* returned, notified and delivered count notifyObservers calls and observer
\* invocations of the last assignment, assigned and prior are the values most
\* recently assigned before and after it
ServiceInit ==
    /\ hook = "config"
    /\ parent = [e \in Entities |-> Null]
    /\ draggedEntity = Null
    /\ currentDropPosition = NullZone
    /\ currentDropVisual = NullZone
    /\ currentDropTarget = Null
    /\ lastDropResult = NoResult
    /\ dropStateRef = ResetState
    /\ overEntity = Null
    /\ ev = NoEvent
    /\ calls = <<>>
    /\ pre = NoSnapshot
    /\ active = "none"
    /\ pv = [stage |-> "service",
             dragToReparentEnabled |-> TRUE,
             callbacks |-> [p \in CallbackProperties |-> Null],
             observers |-> 0,
             disposed |-> FALSE,
             access |-> NoAccess,
             notified |-> 0,
             delivered |-> 0,
             assigned |-> [enableDragToReparent |-> TRUE,
                           callbacks |-> [p \in CallbackProperties |-> Null]],
             prior |-> TRUE]

\* get enableDragToReparent()
GetEnableDragToReparent ==
    /\ pv.stage = "service"
    /\ pv' = [pv EXCEPT !.access = [kind |-> "get", property |-> "enableDragToReparent",
                                    flag |-> pv.dragToReparentEnabled],
                        !.notified = 0, !.delivered = 0]
    /\ UNCHANGED hookVars

\* a setter that notifies on every assignment
SetEnableDragToReparentAlwaysNotifying(value) ==
    /\ pv.stage = "service"
    /\ pv' = [pv EXCEPT !.access = [kind |-> "set", property |-> "enableDragToReparent",
                                    flag |-> value],
                        !.dragToReparentEnabled = value,
                        !.notified = 1,
                        !.delivered = pv.observers,
                        !.prior = pv.assigned.enableDragToReparent,
                        !.assigned.enableDragToReparent = value]
    /\ UNCHANGED hookVars

\* set enableDragToReparent(value)
SetEnableDragToReparent(value) ==
    /\ pv.stage = "service"
    /\ pv' = [pv EXCEPT !.access = [kind |-> "set", property |-> "enableDragToReparent",
                                    flag |-> value],
                        !.dragToReparentEnabled = value,
                        !.notified = IF pv.dragToReparentEnabled # value THEN 1 ELSE 0,
                        !.delivered = IF pv.dragToReparentEnabled # value
                                      THEN pv.observers ELSE 0,
                        !.prior = pv.assigned.enableDragToReparent,
                        !.assigned.enableDragToReparent = value]
    /\ UNCHANGED hookVars

\* get onDrop(), get canDrag(), get canDrop()
GetCallback(property) ==
    /\ pv.stage = "service"
    /\ pv' = [pv EXCEPT !.access = [kind |-> "get", property |-> property,
                                    callback |-> pv.callbacks[property]],
                        !.notified = 0, !.delivered = 0]
    /\ UNCHANGED hookVars

\* set onDrop(value), set canDrag(value), set canDrop(value)
SetCallback(property, value) ==
    /\ pv.stage = "service"
    /\ pv' = [pv EXCEPT !.access = [kind |-> "set", property |-> property,
                                    callback |-> value],
                        !.callbacks[property] = value,
                        !.notified = 0, !.delivered = 0,
                        !.assigned.callbacks[property] = value]
    /\ UNCHANGED hookVars

\* the pane renders: useObservableState subscribes to dragToReparentObservable
MountPane ==
    /\ pv.stage = "service"
    /\ ~pv.disposed /\ pv.observers = 0
    /\ pv' = [pv EXCEPT !.observers = 1, !.notified = 0, !.delivered = 0,
                        !.access = [kind |-> "mount", property |-> "none"]]
    /\ UNCHANGED hookVars

\* the pane unmounts: the subscription is removed
UnmountPane ==
    /\ pv.stage = "service"
    /\ pv.observers = 1
    /\ pv' = [pv EXCEPT !.observers = 0, !.notified = 0, !.delivered = 0,
                        !.access = [kind |-> "unmount", property |-> "none"]]
    /\ UNCHANGED hookVars

\* dispose: dragToReparentObservable.clear(); registration.dispose()
Dispose ==
    /\ pv.stage = "service"
    /\ ~pv.disposed
    /\ pv' = [pv EXCEPT !.observers = 0, !.disposed = TRUE,
                        !.notified = 0, !.delivered = 0,
                        !.access = [kind |-> "dispose", property |-> "none"]]
    /\ UNCHANGED hookVars

ServiceNext ==
    \/ GetEnableDragToReparent
    \/ \E value \in BOOLEAN : SetEnableDragToReparent(value)
    \/ \E property \in CallbackProperties : GetCallback(property)
    \/ \E property \in CallbackProperties : \E value \in ServiceCallbacks :
           SetCallback(property, value)
    \/ MountPane
    \/ UnmountPane
    \/ Dispose

SpecService == ServiceInit /\ [][ServiceNext]_vars

(***************************************************************************)
(* Vocabulary of the properties.                                           *)
(***************************************************************************)
\* the ancestors of e in the scene graph: its parent, its parent's parent, ...
RECURSIVE AncestorsWithin(_, _, _)
AncestorsWithin(par, e, n) ==
    IF n = 0 \/ par[e] = Null THEN {}
    ELSE {par[e]} \cup AncestorsWithin(par, par[e], n - 1)

\* t is a itself or a descendant of a
InSubtreeOf(par, t, a) == t = a \/ a \in AncestorsWithin(par, t, NumEntities)

\* the hover part of a session record, per revision of the hook
HoverFields(ref) ==
    IF hook = "config" THEN {ref.target # Null, ref.position # NullZone}
    ELSE {ref.target # Null, ref.visual # NullZone, ref.dropData # Null,
          ref.provider # Null}

HoverEmpty(ref) == HoverFields(ref) = {FALSE}
HoverPopulated(ref) == HoverFields(ref) = {TRUE}

\* a session record with no dragged entity and no hover
SessionIdle(ref) ==
    /\ ref.draggedEntity = Null /\ ref.target = Null /\ ref.position = NullZone
    /\ ref.visual = NullZone /\ ref.dropData = Null /\ ref.provider = Null

\* nothing is rendered as dragged or hovered
RenderedIdle ==
    /\ draggedEntity = Null /\ currentDropTarget = Null
    /\ currentDropPosition = NullZone /\ currentDropVisual = NullZone

\* the invocations of the callbacks in fns by the handler of ev, in order
CallsTo(fns) == SelectSeq(calls, LAMBDA c : c.fn \in fns)

Mutations == {"section.performDrop", "provider.onDrop"}
Validations == {"section.canDrop", "service.canDrop", "provider.evaluateDrop"}
DragChecks == {"section.canDrag", "service.canDrag", "provider.canDrag"}

\* the index of the first invocation of fn by the handler of ev, 0 if none
FirstCall(fn) ==
    IF \E i \in 1..Len(calls) : calls[i].fn = fn
    THEN CHOOSE i \in 1..Len(calls) :
            calls[i].fn = fn /\ \A j \in 1..(i - 1) : calls[j].fn # fn
    ELSE 0

(***************************************************************************)
(* C1.  Session invariant: at every point in time the hover part of the    *)
(* session record is either fully empty or fully populated (config-object  *)
(* hook: target and position; provider-based hook: target, visual,         *)
(* dropData and provider), whatever the providers and configs return.      *)
(* The provider-based hook breaks it: evaluateDrop may return              *)
(* { canDrop: true, visual, dropData: null }, and onDragMove then stores a *)
(* target, a visual and a provider next to a null dropData.                *)
(***************************************************************************)
C1_SessionAllOrNothing == HoverEmpty(dropStateRef) \/ HoverPopulated(dropStateRef)

(***************************************************************************)
(* C2.  Cycle invariant at the coordinator (config-object hook): a hover   *)
(* update over the dragged entity or over one of its descendants leaves    *)
(* the hover sub-state empty, and no release performs a mutation onto the  *)
(* dragged entity or one of its descendants, whatever the section-level    *)
(* and service-level canDrop callbacks return.  The hook itself only       *)
(* rejects the dragged entity; a descendant is rejected only if a canDrop  *)
(* callback does so.                                                       *)
(***************************************************************************)
C2_CoordinatorRejectsCycles ==
    hook = "config" =>
        /\ (/\ ev.op = "move" /\ ev.over /\ ev.entity # Null
            /\ pre.ref.draggedEntity # Null
            /\ InSubtreeOf(parent, ev.entity, pre.ref.draggedEntity))
           => HoverEmpty(dropStateRef)
        /\ \A i \in 1..Len(calls) :
              calls[i].fn \in Mutations
              => ~InSubtreeOf(parent, calls[i].target, calls[i].dragged)

(***************************************************************************)
(* C3.  Cycle rule of the reference providers: evaluateDrop of the reorder *)
(* provider and of the reparent provider returns canDrop = false whenever  *)
(* the target is the dragged node or one of its descendants, for every     *)
(* pointer position and rectangle and whatever isSiblingReorderDisabled    *)
(* reports; nothing else (toggle, zone) is evaluated before the rejection. *)
(***************************************************************************)
C3_ProvidersRejectCycles ==
    (pv.stage \in {"reorder", "reparent"}
     /\ InSubtreeOf(parent, pv.target, pv.dragged))
    => (~pv.result.canDrop /\ pv.result.steps = <<"cycle">>
        /\ pv.result.newParent = Null)

\* the reorder provider rejects a grandchild of the dragged node hovered in
\* the bottom edge zone while sibling reorder is reported disabled
C3_Witness ==
    /\ pv.stage = "reorder"
    /\ pv.disabled = "true"
    /\ pv.target # pv.dragged
    /\ parent[pv.target] # pv.dragged
    /\ InSubtreeOf(parent, pv.target, pv.dragged)
    /\ 100 * (pv.pointerY - RectTop) > ReorderBottomPercent * pv.height
    /\ pv.height > 0
    /\ ~pv.result.canDrop

(***************************************************************************)
(* C4.  Commit protocol of onDragEnd in the config-object hook.  As        *)
(* claimed: whenever the hover sub-state is populated at release, onDrop   *)
(* is invoked exactly once and before any mutation, and unless it called   *)
(* preventDefault, performDrop is invoked exactly once with the stored     *)
(* dragged entity, target and zone, and lastDropResult is then set to that *)
(* triple.                                                                 *)
(***************************************************************************)
C4_CommitArguments(c) ==
    /\ c.dragged = pre.ref.draggedEntity
    /\ c.target = pre.ref.target
    /\ c.zone = pre.ref.position

C4_CommitProtocolAlways ==
    (hook = "config" /\ ev.op = "end" /\ HoverPopulated(pre.ref))
    => /\ Len(CallsTo({"service.onDrop"})) = 1
       /\ ev.onDrop # "prevent"
          => /\ Len(CallsTo(Mutations)) = 1
             /\ FirstCall("service.onDrop") < FirstCall("section.performDrop")
             /\ FirstCall("section.performDrop") < FirstCall("setLastDropResult")
             /\ \A i \in 1..Len(calls) : C4_CommitArguments(calls[i])
             /\ lastDropResult =
                    <<[draggedEntity |-> pre.ref.draggedEntity,
                       targetEntity |-> pre.ref.target, drop |-> pre.ref.position]>>

(***************************************************************************)
(* C4, as amended.  Whenever the hover sub-state is populated at release   *)
(* and the dragged entity's tree item is an entity item with a             *)
(* dragDropConfig: onDrop, when one is supplied, is invoked exactly once   *)
(* and before any mutation; unless it called preventDefault, performDrop,  *)
(* when the config has one, is invoked exactly once with the stored        *)
(* dragged entity, target and zone, and after that lastDropResult is set   *)
(* to that triple.                                                         *)
(***************************************************************************)
C4_CommitProtocol ==
    (/\ hook = "config" /\ ev.op = "end" /\ HoverPopulated(pre.ref)
     /\ ev.itemIsEntity /\ ev.carrier)
    => /\ Len(CallsTo({"service.onDrop"})) = (IF ev.onDrop = "unset" THEN 0 ELSE 1)
       /\ \A i \in 1..Len(calls) : C4_CommitArguments(calls[i])
       /\ \A i, j \in 1..Len(calls) :
             (calls[i].fn = "service.onDrop" /\ calls[j].fn \in Mutations) => i < j
       /\ ev.onDrop # "prevent"
          => /\ Len(CallsTo(Mutations)) = (IF ev.performDrop THEN 1 ELSE 0)
             /\ \A i \in 1..Len(calls) :
                   calls[i].fn \in Mutations
                   => /\ calls[i].fn = "section.performDrop"
                      /\ calls[i].owner = pre.ref.draggedEntity
                      /\ i < FirstCall("setLastDropResult")
             /\ Len(CallsTo({"setLastDropResult"})) = 1
             /\ lastDropResult =
                    <<[draggedEntity |-> pre.ref.draggedEntity,
                       targetEntity |-> pre.ref.target, drop |-> pre.ref.position]>>

\* a release that ran the interception hook, then performDrop, then published
C4_Witness ==
    /\ hook = "config" /\ ev.op = "end" /\ ev.onDrop = "pass" /\ ev.performDrop
    /\ HoverPopulated(pre.ref)
    /\ Len(calls) = 3
    /\ calls[1].fn = "service.onDrop" /\ calls[2].fn = "section.performDrop"
    /\ lastDropResult # NoResult

(***************************************************************************)
(* C5.  Prevented drop: a release with a populated hover sub-state whose   *)
(* interception hook calls preventDefault invokes no mutation, publishes   *)
(* no lastDropResult (it stays null) and still resets the session to idle. *)
(***************************************************************************)
C5_PreventedDrop ==
    (/\ hook = "config" /\ ev.op = "end" /\ HoverPopulated(pre.ref)
     /\ ev.onDrop = "prevent" /\ CallsTo({"service.onDrop"}) # <<>>)
    => /\ CallsTo(Mutations) = <<>>
       /\ CallsTo({"setLastDropResult"}) = <<>>
       /\ pre.last = NoResult /\ lastDropResult = NoResult
       /\ draggedEntity = Null /\ currentDropTarget = Null
       /\ currentDropPosition = NullZone
       /\ SessionIdle(dropStateRef)

\* the scenario of the specification: the hook prevents a drop "after" a target
C5_Witness ==
    /\ hook = "config" /\ ev.op = "end" /\ ev.onDrop = "prevent"
    /\ pre.ref.draggedEntity # Null /\ pre.ref.target # Null
    /\ pre.ref.position = "after"
    /\ Len(CallsTo({"service.onDrop"})) = 1
    /\ calls[1].zone = "after"

(***************************************************************************)
(* C6.  Release always ends the session: after every onDragEnd, from any   *)
(* session state and whether a drop was performed, prevented or            *)
(* impossible, the dragged entity, the hover target, the zone or visual,   *)
(* the dropData and the provider are null in the rendered state and in     *)
(* the session record.                                                     *)
(***************************************************************************)
C6_ReleaseEndsSession == ev.op = "end" => (RenderedIdle /\ SessionIdle(dropStateRef))

\* a release that resets although nothing was committed: the dragged entity's
\* tree item has no config
C6_Witness ==
    /\ hook = "config" /\ ev.op = "end" /\ HoverPopulated(pre.ref)
    /\ ev.itemIsEntity /\ ~ev.carrier
    /\ calls = <<>>
    /\ SessionIdle(dropStateRef)

(***************************************************************************)
(* C7.  Cancel from any session state resets the dragged entity and the    *)
(* whole hover sub-state to null, invokes neither the interception hook    *)
(* nor a mutation callback, and does not set lastDropResult.               *)
(***************************************************************************)
C7_CancelResets ==
    ev.op = "cancel"
    => /\ RenderedIdle /\ SessionIdle(dropStateRef)
       /\ calls = <<>>
       /\ lastDropResult = pre.last

\* a cancel while a drop target is highlighted
C7_Witness ==
    /\ ev.op = "cancel" /\ hook = "provider"
    /\ HoverPopulated(pre.ref) /\ pre.currentDropTarget # Null
    /\ SessionIdle(dropStateRef)

(***************************************************************************)
(* C8.  Cancel is idempotent: on an already-idle session it changes no     *)
(* observable state (dragged entity, hover target, zone, lastDropResult)   *)
(* and calls no mutation; and since every cancel leaves the session idle,  *)
(* a second cancel yields the state of the first.                          *)
(***************************************************************************)
C8_IdleBefore ==
    /\ SessionIdle(pre.ref) /\ pre.draggedEntity = Null /\ pre.currentDropTarget = Null
    /\ pre.currentDropPosition = NullZone /\ pre.currentDropVisual = NullZone

C8_CancelIdempotent ==
    /\ (ev.op = "cancel" /\ C8_IdleBefore)
       => /\ dropStateRef = pre.ref
          /\ draggedEntity = pre.draggedEntity
          /\ currentDropTarget = pre.currentDropTarget
          /\ currentDropPosition = pre.currentDropPosition
          /\ currentDropVisual = pre.currentDropVisual
          /\ lastDropResult = pre.last
          /\ CallsTo(Mutations) = <<>>
    /\ ev.op = "cancel"
       => /\ SessionIdle(dropStateRef)
          /\ draggedEntity = Null /\ currentDropTarget = Null
          /\ currentDropPosition = NullZone /\ currentDropVisual = NullZone

\* a cancel on an idle session that still shows the result of the last drop
C8_Witness ==
    /\ ev.op = "cancel" /\ C8_IdleBefore
    /\ pre.last # NoResult /\ lastDropResult = pre.last

(***************************************************************************)
(* C9.  Drag start gating: an onDragStart carrying entity e, received      *)
(* while idle, sets the dragged entity to e if and only if the             *)
(* section-level canDrag and the service-level canDrag (each true when     *)
(* unset) both approve; in the provider-based hook, if and only if         *)
(* provider.canDrag approves (true when there is no provider).  Otherwise  *)
(* the dragged entity stays null and the session remains idle.             *)
(***************************************************************************)
C9_Approved ==
    IF hook = "config" THEN ev.sectionCb # "false" /\ ev.serviceCb # "false"
    ELSE ev.provider = Null \/ ev.sectionCb = "true"

C9_DragStartGating ==
    (ev.op = "start" /\ ev.entity # Null /\ C8_IdleBefore)
    => /\ (draggedEntity = ev.entity) <=> C9_Approved
       /\ (dropStateRef.draggedEntity = ev.entity) <=> C9_Approved
       /\ ~C9_Approved => (RenderedIdle /\ SessionIdle(dropStateRef))
       /\ HoverEmpty(dropStateRef)

\* a start approved by default at section level and explicitly by the service
C9_Witness ==
    /\ hook = "config" /\ ev.op = "start" /\ ev.entity # Null /\ C8_IdleBefore
    /\ ev.sectionCb = "unset" /\ ev.serviceCb = "true"
    /\ draggedEntity = ev.entity
    /\ Len(calls) = 1 /\ calls[1].fn = "service.canDrag"

(***************************************************************************)
(* C10.  A drag start rejected by canDrag suppresses the whole gesture:    *)
(* canDrag is evaluated only in onDragStart, and after a rejected start    *)
(* every hover update and the release of that gesture leave the hover      *)
(* sub-state empty, evaluate no canDrop or evaluateDrop, call no           *)
(* interception hook and perform no mutation.  Checked under the sensor's  *)
(* protocol (start, moves, end or cancel).                                 *)
(***************************************************************************)
C10_RejectedStartSuppressesGesture ==
    /\ \A i \in 1..Len(calls) : calls[i].fn \in DragChecks => ev.op = "start"
    /\ (ev.op = "start" /\ active = "rejected")
       => (draggedEntity = Null /\ dropStateRef.draggedEntity = Null)
    /\ (pre.active = "rejected" /\ ev.op \in {"move", "end"})
       => /\ HoverEmpty(dropStateRef)
          /\ currentDropTarget = Null
          /\ draggedEntity = Null /\ dropStateRef.draggedEntity = Null
          /\ calls = <<>>
          /\ lastDropResult = pre.last

\* after a rejected start the pointer hovers an entity that could take a drop
C10_Witness ==
    /\ pre.active = "rejected" /\ ev.op = "move"
    /\ ev.over /\ ev.entity # Null /\ ev.carrier
    /\ hook = "config"
    /\ HoverEmpty(dropStateRef)

(***************************************************************************)
(* C11.  Drop validation is a conjunction: a hover update of the           *)
(* config-object hook that passes the preliminary checks and has pointer   *)
(* coordinates populates the hover sub-state with the resolved target and  *)
(* zone if and only if the section-level canDrop of the resolved config    *)
(* and the service-level canDrop (each true when unset) both approve the   *)
(* resolved (dragged, target, zone); both are consulted; if either         *)
(* rejects, target and zone are null after the update.                     *)
(***************************************************************************)
\* the hover update being handled passed the preliminary checks of onDragMove
PassesPreliminaryChecks ==
    /\ ev.op = "move" /\ ev.over /\ ev.entity # Null /\ ev.carrier
    /\ pre.ref.draggedEntity # Null /\ ev.entity # pre.ref.draggedEntity

\* the target, zone and config the config-object hook resolves for it
C11_Resolved ==
    ResolveDrop(parent, pre.ref.draggedEntity, ev.entity,
                CalculateDropPosition(ev.pointerY, RectTop, RectHeight), ev)

C11_ValidationIsConjunction ==
    (hook = "config" /\ PassesPreliminaryChecks /\ ev.pointerY # NoCoords)
    => LET approved == ev.sectionCb # "false" /\ ev.serviceCb # "false" IN
       /\ HoverPopulated(dropStateRef) <=> approved
       /\ approved => /\ dropStateRef.target = C11_Resolved.target
                      /\ dropStateRef.position = C11_Resolved.position
       /\ ~approved => (dropStateRef.target = Null /\ dropStateRef.position = NullZone)
       /\ currentDropTarget = dropStateRef.target
       /\ currentDropPosition = dropStateRef.position
       /\ Len(CallsTo({"section.canDrop"})) = (IF ev.sectionCb = "unset" THEN 0 ELSE 1)
       /\ Len(CallsTo({"service.canDrop"})) = (IF ev.serviceCb = "unset" THEN 0 ELSE 1)
       /\ \A i \in 1..Len(calls) :
             /\ calls[i].dragged = pre.ref.draggedEntity
             /\ calls[i].target = C11_Resolved.target
             /\ calls[i].zone = C11_Resolved.position

\* the section approves, the service rejects, and a highlighted target is cleared
C11_Witness ==
    /\ hook = "config" /\ PassesPreliminaryChecks /\ ev.pointerY # NoCoords
    /\ ev.sectionCb = "true" /\ ev.serviceCb = "false"
    /\ HoverPopulated(pre.ref)
    /\ dropStateRef.target = Null /\ dropStateRef.position = NullZone
    /\ Len(calls) = 2

(***************************************************************************)
(* C12.  A hover update degrades to "no valid drop": if the event has no   *)
(* over element, or no entity is being dragged, or the hovered element     *)
(* carries no entity or no provider / dragDropConfig, or the hovered       *)
(* entity is the dragged entity, then after the update the hover sub-state *)
(* is entirely null, the dragged entity is unchanged and no canDrop or     *)
(* evaluateDrop was invoked.                                               *)
(***************************************************************************)
C12_HoverDegrades ==
    (/\ ev.op = "move"
     /\ \/ ~ev.over \/ pre.ref.draggedEntity = Null
        \/ ev.entity = Null \/ ~ev.carrier \/ ev.entity = pre.ref.draggedEntity)
    => /\ dropStateRef.target = Null /\ dropStateRef.position = NullZone
       /\ dropStateRef.visual = NullZone /\ dropStateRef.dropData = Null
       /\ dropStateRef.provider = Null
       /\ currentDropTarget = Null /\ currentDropPosition = NullZone
       /\ currentDropVisual = NullZone
       /\ dropStateRef.draggedEntity = pre.ref.draggedEntity
       /\ draggedEntity = pre.draggedEntity
       /\ CallsTo(Validations) = <<>>
       /\ lastDropResult = pre.last

\* the pointer comes back over the dragged row while a target was highlighted
C12_Witness ==
    /\ hook = "provider" /\ ev.op = "move" /\ ev.over /\ ev.provider # Null
    /\ ev.entity # Null /\ ev.entity = pre.ref.draggedEntity
    /\ HoverPopulated(pre.ref)
    /\ HoverEmpty(dropStateRef) /\ dropStateRef.draggedEntity = ev.entity

(***************************************************************************)
(* C13.  Hovering collapses to bare dragging when the target becomes       *)
(* invalid: the hover sub-state stored by a hover update that carries      *)
(* pointer coordinates (or fails a preliminary check) is determined by     *)
(* that update and the dragged entity alone, not by the hover stored       *)
(* before; a populated hover followed by a hover that fails validation     *)
(* leaves the hover sub-state null, and a release on a null hover          *)
(* performs no mutation.                                                   *)
(***************************************************************************)
\* the session record with the dragged entity of the entry state and no hover
C13_BareDragging == [ResetState EXCEPT !.draggedEntity = pre.ref.draggedEntity]

C13_HoverCollapses ==
    /\ (ev.op = "move" /\ (ev.pointerY # NoCoords \/ ~PassesPreliminaryChecks))
       => /\ hook = "config" => dropStateRef = ConfigMoveRef(C13_BareDragging, parent, ev)
          /\ hook = "provider" => dropStateRef = ProviderMoveRef(C13_BareDragging, ev)
    /\ (/\ PassesPreliminaryChecks /\ ev.pointerY # NoCoords
        /\ IF hook = "config" THEN ev.sectionCb = "false" \/ ev.serviceCb = "false"
           ELSE ~ev.canDrop)
       => /\ HoverEmpty(dropStateRef)
          /\ dropStateRef.target = Null
          /\ currentDropTarget = Null /\ currentDropPosition = NullZone
          /\ currentDropVisual = NullZone
    /\ (ev.op = "end" /\ pre.ref.target = Null) => CallsTo(Mutations) = <<>>

\* a highlighted target B, then a hover over another entity that canDrop rejects
C13_Witness ==
    /\ hook = "config" /\ PassesPreliminaryChecks /\ ev.pointerY # NoCoords
    /\ HoverPopulated(pre.ref) /\ pre.ref.target # ev.entity
    /\ ev.sectionCb = "false"
    /\ HoverEmpty(dropStateRef)

(***************************************************************************)
(* C14.  Redirect scenario.  As claimed: whenever the pointer is in the    *)
(* bottom 15% of a target that is expanded and has at least one visible    *)
(* child, the hover resolves to "before" that first child, and on release  *)
(* the mutation callback receives the first child with position "before",  *)
(* not the hovered target.                                                 *)
(***************************************************************************)
\* the hover update being handled is in the "after" zone of an expanded
\* entity item with children
C14_AfterExpanded ==
    /\ hook = "config" /\ PassesPreliminaryChecks /\ ev.pointerY # NoCoords
    /\ 100 * (ev.pointerY - RectTop) > AfterPercent * RectHeight
    /\ ev.itemIsEntity /\ ev.open
    /\ Len(TreeItemChildren(parent, ev.entity)) > 0

C14_FirstChild == TreeItemChildren(parent, ev.entity)[1]

\* the release being handled follows a hover whose target was redirected
C14_ReleaseAfterRedirect ==
    /\ hook = "config" /\ ev.op = "end"
    /\ pre.ref.target # Null /\ pre.over # pre.ref.target

C14_ReleaseOnFirstChild ==
    C14_ReleaseAfterRedirect
    => /\ pre.ref.position = "before"
       /\ Len(TreeItemChildren(parent, pre.over)) > 0
       /\ pre.ref.target = TreeItemChildren(parent, pre.over)[1]
       /\ \A i \in 1..Len(calls) :
             calls[i].fn \in Mutations
             => /\ calls[i].target = pre.ref.target /\ calls[i].target # pre.over
                /\ calls[i].zone = "before"

C14_RedirectAlways ==
    /\ (C14_AfterExpanded /\ ev.sectionCb # "false" /\ ev.serviceCb # "false")
       => (dropStateRef.target = C14_FirstChild /\ dropStateRef.position = "before")
    /\ C14_ReleaseOnFirstChild

(***************************************************************************)
(* C14, as amended.  When the pointer is in the bottom 15% of a target     *)
(* that is expanded and has at least one visible child, and that first     *)
(* child is an entity item with a dragDropConfig and is not the dragged    *)
(* entity, the hover resolves to "before" the first child (stored when     *)
(* canDrop approves); otherwise the zone stays "after" the hovered target. *)
(* On release after a redirect, every mutation callback invoked receives   *)
(* the first child with position "before", not the hovered target.         *)
(***************************************************************************)
C14_Redirect ==
    /\ (C14_AfterExpanded /\ ev.sectionCb # "false" /\ ev.serviceCb # "false")
       => IF ev.childIsEntity /\ ev.childHasConfig
             /\ C14_FirstChild # pre.ref.draggedEntity
          THEN /\ dropStateRef.target = C14_FirstChild
               /\ dropStateRef.position = "before"
               /\ overEntity = ev.entity
          ELSE /\ dropStateRef.target = ev.entity
               /\ dropStateRef.position = "after"
    /\ C14_ReleaseOnFirstChild

\* a release after a redirect whose performDrop ran against the first child
C14_Witness ==
    /\ C14_ReleaseAfterRedirect
    /\ parent[pre.ref.target] = pre.over
    /\ \E i \in 1..Len(calls) :
          /\ calls[i].fn = "section.performDrop"
          /\ calls[i].target = pre.ref.target /\ calls[i].zone = "before"

(***************************************************************************)
(* C15.  A redirected drop uses the first child's own callbacks: when the  *)
(* redirect rule applies, the canDrop validation during the hover and the  *)
(* mutation callback invoked on release are both those of the first       *)
(* child's dragDropConfig, not those of the hovered target nor of the      *)
(* dragged entity.                                                         *)
(***************************************************************************)
C15_HoverUsesFirstChildConfig ==
    (/\ C14_AfterExpanded /\ ev.childIsEntity /\ ev.childHasConfig
     /\ C14_FirstChild # pre.ref.draggedEntity)
    => \A i \in 1..Len(calls) :
          calls[i].fn = "section.canDrop" => calls[i].owner = C14_FirstChild

C15_ReleaseUsesFirstChildConfig ==
    C14_ReleaseAfterRedirect
    => \A i \in 1..Len(calls) :
          calls[i].fn \in Mutations => calls[i].owner = pre.ref.target

C15_RedirectUsesFirstChildCallbacks ==
    C15_HoverUsesFirstChildConfig /\ C15_ReleaseUsesFirstChildConfig

(***************************************************************************)
(* C16.  Redirected drops are validated: in every revision of the hover    *)
(* handler that applies the "after expanded node -> before first child"    *)
(* redirect, canDrop validation is run on the redirected (first child,     *)
(* "before") pair, so the hover sub-state is never populated with a        *)
(* redirected pair that a canDrop callback rejects.                        *)
(***************************************************************************)
\* the hover update being handled stored a target other than the over element
C16_StoredRedirect ==
    /\ PassesPreliminaryChecks /\ ev.pointerY # NoCoords
    /\ dropStateRef.target # Null /\ dropStateRef.target # ev.entity

C16_RedirectedDropsValidated ==
    C16_StoredRedirect
    => /\ dropStateRef.position = "before"
       /\ ev.sectionCb # "false" /\ ev.serviceCb # "false"
       /\ ev.sectionCb # "unset"
          => \E i \in 1..Len(calls) :
                /\ calls[i].fn = "section.canDrop"
                /\ calls[i].target = dropStateRef.target /\ calls[i].zone = "before"
       /\ \A i \in 1..Len(calls) :
             calls[i].fn \in Validations => calls[i].target = dropStateRef.target

(***************************************************************************)
(* C17.  lastDropResult is cleared at the start of the next drag: after    *)
(* every onDragStart that carries an entity, whether or not canDrag        *)
(* approves, lastDropResult is null; consequently lastDropResult is null   *)
(* in every state in which a dragged entity is set.                        *)
(***************************************************************************)
C17_ClearedAtDragStart ==
    /\ (ev.op = "start" /\ ev.entity # Null) => lastDropResult = NoResult
    /\ (draggedEntity # Null \/ dropStateRef.draggedEntity # Null)
       => lastDropResult = NoResult

\* a start that canDrag rejects still clears the result of the previous drop
C17_Witness ==
    /\ ev.op = "start" /\ ev.entity # Null
    /\ pre.last # NoResult
    /\ ev.sectionCb = "false" /\ draggedEntity = Null
    /\ lastDropResult = NoResult

(***************************************************************************)
(* C18.  lastDropResult records the last non-prevented drop: it becomes    *)
(* non-null only in a release with a populated hover sub-state that is     *)
(* committed without preventDefault, and is then the dragged entity, the   *)
(* resolved target and the resolved zone (or visual) of that release; it   *)
(* keeps its value until a drag start carrying an entity clears it; hover  *)
(* updates and cancel never change it.                                     *)
(***************************************************************************)
\* the release being handled found a committable session and was not prevented
C18_Committed ==
    /\ ev.op = "end" /\ pre.ref.draggedEntity # Null /\ pre.ref.target # Null
    /\ IF hook = "config"
       THEN /\ pre.ref.position # NullZone
            /\ ev.itemIsEntity /\ ev.carrier /\ ev.onDrop # "prevent"
       ELSE /\ pre.ref.visual # NullZone /\ pre.ref.dropData # Null
            /\ pre.ref.provider # Null

C18_RecordsLastDrop ==
    /\ ev.op \in {"move", "cancel"} => lastDropResult = pre.last
    /\ (ev.op = "start" /\ ev.entity = Null) => lastDropResult = pre.last
    /\ (ev.op = "end" /\ ~C18_Committed) => lastDropResult = pre.last
    /\ C18_Committed
       => /\ HoverPopulated(pre.ref)
          /\ lastDropResult =
                <<[draggedEntity |-> pre.ref.draggedEntity,
                   targetEntity |-> pre.ref.target,
                   drop |-> IF hook = "config" THEN pre.ref.position
                            ELSE pre.ref.visual]>>
    /\ lastDropResult # NoResult
       => /\ lastDropResult[1].draggedEntity # Null
          /\ lastDropResult[1].targetEntity # Null
          /\ lastDropResult[1].drop # NullZone

\* a committed release of the provider-based hook publishing its visual
C18_Witness ==
    /\ hook = "provider" /\ C18_Committed
    /\ CallsTo(Mutations) # <<>>
    /\ lastDropResult # NoResult
    /\ lastDropResult[1].targetEntity = pre.ref.target
    /\ lastDropResult[1].drop = pre.ref.visual

(***************************************************************************)
(* C19.  Reset on drag start: after every onDragStart, from any prior      *)
(* session state, including one whose hover sub-state is still populated   *)
(* because no release or cancel was delivered, the hover target, zone or   *)
(* visual, dropData and provider of the session record are null and only   *)
(* the newly dragged entity may be set.                                    *)
(***************************************************************************)
C19_ResetOnDragStart ==
    ev.op = "start"
    => /\ dropStateRef.target = Null /\ dropStateRef.position = NullZone
       /\ dropStateRef.visual = NullZone /\ dropStateRef.dropData = Null
       /\ dropStateRef.provider = Null
       /\ currentDropTarget = Null /\ currentDropPosition = NullZone
       /\ currentDropVisual = NullZone
       /\ dropStateRef.draggedEntity \in {Null, ev.entity}

(***************************************************************************)
(* C20.  A hover update without pointer coordinates is a no-op: when it    *)
(* passes the preliminary checks but its activator event has neither       *)
(* clientY nor a non-empty touches list, the whole session state (dragged  *)
(* entity, target, zone or visual, dropData, provider, lastDropResult) is  *)
(* left as it was and no canDrop or evaluateDrop is invoked.               *)
(***************************************************************************)
C20_NoCoordinatesNoOp ==
    (PassesPreliminaryChecks /\ ev.pointerY = NoCoords)
    => /\ dropStateRef = pre.ref
       /\ draggedEntity = pre.draggedEntity
       /\ currentDropTarget = pre.currentDropTarget
       /\ currentDropPosition = pre.currentDropPosition
       /\ currentDropVisual = pre.currentDropVisual
       /\ lastDropResult = pre.last
       /\ overEntity = pre.over
       /\ calls = <<>>

\* such an update over another entity while a target is highlighted
C20_Witness ==
    /\ PassesPreliminaryChecks /\ ev.pointerY = NoCoords
    /\ hook = "provider"
    /\ HoverPopulated(pre.ref) /\ pre.ref.target # ev.entity
    /\ dropStateRef.target = pre.ref.target
    /\ currentDropTarget = pre.ref.target

(***************************************************************************)
(* C21.  Three-zone classifier: for every pointer offset y = (activator    *)
(* clientY + drag delta y) - rect.top and every height h >= 0,             *)
(* calculateDropPosition returns "before" iff y < 0.25 h, "after" iff      *)
(* y > 0.85 h and "inside" otherwise; it is total (y < 0 gives "before",   *)
(* y > h gives "after") and y = 0.25 h and y = 0.85 h give "inside".       *)
(***************************************************************************)
\* the pointer offset of the classified input
C21_Offset == pv.clientY + pv.deltaY - RectTop

C21_ThreeZones ==
    pv.stage = "classified"
    => /\ pv.position \in DropPositions
       /\ pv.position = "before" <=> 4 * C21_Offset < pv.height
       /\ pv.position = "after" <=> 20 * C21_Offset > 17 * pv.height
       /\ C21_Offset < 0 => pv.position = "before"
       /\ C21_Offset > pv.height => pv.position = "after"
       /\ 4 * C21_Offset = pv.height => pv.position = "inside"
       /\ 20 * C21_Offset = 17 * pv.height => pv.position = "inside"

\* the pointer exactly on the lower threshold of a rectangle with a height
C21_Witness ==
    /\ pv.stage = "classified" /\ pv.height > 0
    /\ 20 * C21_Offset = 17 * pv.height
    /\ pv.deltaY > 0
    /\ pv.position = "inside"

(***************************************************************************)
(* C22.  Reorder provider zones: for a target that is neither the dragged  *)
(* node nor one of its descendants, with sibling reorder enabled, and      *)
(* r = (pointerY - rect.top) / rect.height, evaluateDrop returns a         *)
(* reorder "before" drop (referenceNode = target, newParent = the target's *)
(* parent, top-edge visual) iff r < 0.15, a reorder "after" drop (same     *)
(* reference and parent, bottom-edge visual) iff r > 0.85, and otherwise a *)
(* reparent drop with newParent = target and a border visual; r = 0.15 and *)
(* r = 0.85 exactly give reparent.                                         *)
(***************************************************************************)
\* the evaluated input of the reorder provider is the claim's case
C22_Enabled ==
    /\ pv.stage = "reorder"
    /\ pv.target # pv.dragged
    /\ ~InSubtreeOf(parent, pv.target, pv.dragged)
    /\ pv.disabled # "true"

C22_IsReorder(position, visual) ==
    /\ pv.result.canDrop
    /\ pv.result.action = "reorder"
    /\ pv.result.position = position
    /\ pv.result.visual = visual
    /\ pv.result.referenceNode = pv.target
    /\ pv.result.newParent = parent[pv.target]

C22_IsReparent ==
    /\ pv.result.canDrop
    /\ pv.result.action = "reparent"
    /\ pv.result.visual = "border"
    /\ pv.result.newParent = pv.target

C22_ReorderZones ==
    C22_Enabled
    => LET d == pv.pointerY - RectTop
           h == pv.height
       IN  /\ C22_IsReorder("before", "edgeTop") <=> 20 * d < 3 * h
           /\ C22_IsReorder("after", "edgeBottom") <=> 20 * d > 17 * h
           /\ C22_IsReparent <=> (20 * d >= 3 * h /\ 20 * d <= 17 * h)
           /\ pv.result.action \in {"reorder", "reparent"}

\* the pointer exactly at 15% of a rectangle with a height: a reparent drop
C22_Witness ==
    /\ C22_Enabled
    /\ pv.height > 0
    /\ 20 * (pv.pointerY - RectTop) = 3 * pv.height
    /\ C22_IsReparent
    /\ parent[pv.target] # Null

(***************************************************************************)
(* C24.  Reorder commit: for every sibling collection and every pair of    *)
(* distinct members dragged and reference, onDrop with a reorder action    *)
(* leaves the dragged node immediately before the reference when position  *)
(* is "before" and immediately after it when position is "after"; the      *)
(* collection is a permutation of its previous contents (same length, no   *)
(* duplicate, no loss) and the relative order of all other siblings is     *)
(* unchanged.                                                              *)
(***************************************************************************)
\* the members of an array
C24_Members(array) == {array[i] : i \in 1..Len(array)}

\* where a member stands in an array without duplicates
C24_Place(array, x) == CHOOSE i \in 1..Len(array) : array[i] = x

\* dragged and reference are distinct members of the collection
C24_DistinctMembers ==
    /\ pv.dragged # pv.referenceNode
    /\ {pv.dragged, pv.referenceNode} \subseteq C24_Members(pv.siblings)

C24_ReorderCommit ==
    (pv.stage = "reordered" /\ C24_DistinctMembers)
    => LET old == pv.siblings
           new == pv.result
           others == C24_Members(old) \ {pv.dragged}
       IN  /\ Len(new) = Len(old)
           /\ C24_Members(new) = C24_Members(old)
           /\ \A i, j \in 1..Len(new) : new[i] = new[j] => i = j
           /\ pv.position = "before"
              => C24_Place(new, pv.dragged) + 1 = C24_Place(new, pv.referenceNode)
           /\ pv.position = "after"
              => C24_Place(new, pv.dragged) = C24_Place(new, pv.referenceNode) + 1
           /\ \A x, y \in others :
                  C24_Place(old, x) < C24_Place(old, y)
                  <=> C24_Place(new, x) < C24_Place(new, y)

\* the dragged node crosses two other siblings on its way behind the reference
C24_Witness ==
    /\ pv.stage = "reordered" /\ C24_DistinctMembers
    /\ Len(pv.siblings) = NumSiblings
    /\ pv.position = "after"
    /\ C24_Place(pv.siblings, pv.dragged) = 1
    /\ C24_Place(pv.siblings, pv.referenceNode) = 3
    /\ C24_Place(pv.result, pv.dragged) = 3
    /\ pv.result # pv.siblings

(***************************************************************************)
(* C23.  Sort-toggle override: whenever isSiblingReorderDisabled reports   *)
(* true, evaluateDrop yields the reparent action (newParent = target)      *)
(* regardless of pointer position, so no reorder "before" or "after" drop  *)
(* data is produced by an evaluation made while the toggle reports true.   *)
(* As first stated the property adds that no reorder drop data can be      *)
(* committed while the toggle reports true: the release commits what the   *)
(* last hover stored and does not consult the toggle.                      *)
(***************************************************************************)
\* the hover just evaluated a drop while the toggle reported true
C23_EvaluatedDisabled ==
    /\ ev.op = "move" /\ ev.pointerY # NoCoords
    /\ pv.toggle = "true"
    /\ ~InSubtreeOf(pv.scene.par, ev.entity, pre.ref.draggedEntity)

\* the drop data the release handed to the provider's onDrop
C23_Committed == pv.heap[calls[1].data]

C23_ReleaseCommitted == ev.op = "end" /\ calls # <<>>

C23_EvaluationReparents ==
    C23_EvaluatedDisabled
    => /\ ev.canDrop
       /\ dropStateRef.target = ev.entity
       /\ dropStateRef.visual = "border"
       /\ dropStateRef.dropData # Null
       /\ pv.heap[dropStateRef.dropData].action = "reparent"
       /\ pv.heap[dropStateRef.dropData].newParent = ev.entity

\* the property as first stated
C23_SortToggleOverrideAlways ==
    /\ C23_EvaluationReparents
    /\ (C23_ReleaseCommitted /\ pv.toggle = "true")
       => C23_Committed.action # "reorder"

\* the release commits the drop data the session stored, whatever the toggle
\* reports by then
C23_SortToggleOverride ==
    /\ C23_EvaluationReparents
    /\ C23_ReleaseCommitted
       => /\ pre.ref.dropData # Null
          /\ C23_Committed = pv.heap[pre.ref.dropData]
          /\ C23_Committed.action \in {"reparent", "reorder"}

\* the toggle reports true with the pointer in the top edge zone
C23_Witness ==
    /\ C23_EvaluatedDisabled
    /\ 20 * (ev.pointerY - RectTop) < 3 * RectHeight
    /\ pv.heap[dropStateRef.dropData].action = "reparent"
    /\ pv.heap[dropStateRef.dropData].newParent = ev.entity

(***************************************************************************)
(* C25.  Root index re-synchronisation: after any reorder committed at     *)
(* root level (newParent is null) that moves the dragged node, every node  *)
(* in the scene's rootNodes array has its cached _sceneRootNodesIndex      *)
(* equal to its position in rootNodes; the reorder of a node under a       *)
(* non-null parent writes no cached root index (the cached indices are     *)
(* those the node's change of parent, if any, left).                       *)
(***************************************************************************)
C25_Data == pv.heap[calls[1].data]

C25_ReorderCommitted ==
    /\ ev.op = "end" /\ calls # <<>>
    /\ C25_Data.action = "reorder"

\* the dragged node stands elsewhere in rootNodes than before the release
C25_Moved ==
    IndexOf(pv.scene.rootNodes, calls[1].dragged)
        # IndexOf(pv.before.rootNodes, calls[1].dragged)

C26_HoverMiddle ==
    /\ ev.op = "move" /\ ev.pointerY # NoCoords
    /\ ~InSubtreeOf(pv.scene.par, ev.entity, pre.ref.draggedEntity)
    /\ 20 * (ev.pointerY - RectTop) >= 3 * RectHeight
    /\ 20 * (ev.pointerY - RectTop) <= 17 * RectHeight

C26_ResolvesToReparent ==
    C26_HoverMiddle
    => /\ dropStateRef.draggedEntity = pre.ref.draggedEntity
       /\ dropStateRef.target = ev.entity
       /\ dropStateRef.visual = "border"
       /\ dropStateRef.provider = ReorderProvider
       /\ dropStateRef.dropData # Null
       /\ pv.heap[dropStateRef.dropData].action = "reparent"
       /\ pv.heap[dropStateRef.dropData].newParent = ev.entity

\* the release of a session that stored a reparent drop
C26_ReleaseOfReparent ==
    /\ ev.op = "end"
    /\ pre.ref.draggedEntity # Null /\ pre.ref.target # Null
    /\ pre.ref.dropData # Null
    /\ pv.heap[pre.ref.dropData].action = "reparent"

\* the array A was a member of before the release, as it is now
C26_FormerSiblings ==
    IF pv.before.par[pre.ref.draggedEntity] = Null THEN pv.scene.rootNodes
    ELSE pv.scene.children[pv.before.par[pre.ref.draggedEntity]]

C26_BecomesChild ==
    /\ pv.scene.par[pre.ref.draggedEntity] = pre.ref.target
    /\ IndexOf(pv.scene.children[pre.ref.target], pre.ref.draggedEntity) # -1
    /\ IndexOf(pv.scene.rootNodes, pre.ref.draggedEntity) = -1
    /\ \A p \in Entities \ {pre.ref.target} :
           IndexOf(pv.scene.children[p], pre.ref.draggedEntity) = -1

\* the property as first stated
C26_EndToEndReparentAlways ==
    /\ C26_ResolvesToReparent
    /\ C26_ReleaseOfReparent
       => /\ C26_BecomesChild
          /\ IndexOf(C26_FormerSiblings, pre.ref.draggedEntity) = -1

C26_EndToEndReparent ==
    /\ C26_ResolvesToReparent
    /\ C26_ReleaseOfReparent
       => /\ C26_BecomesChild
          /\ pv.before.par[pre.ref.draggedEntity] # pre.ref.target
             => IndexOf(C26_FormerSiblings, pre.ref.draggedEntity) = -1

\* A leaves the children of another node for those of B
C26_Witness ==
    /\ C26_ReleaseOfReparent
    /\ pv.before.par[pre.ref.draggedEntity] \notin {Null, pre.ref.target}
    /\ pv.scene.par[pre.ref.draggedEntity] = pre.ref.target
    /\ pv.scene.children[pre.ref.target]
           = Append(pv.before.children[pre.ref.target], pre.ref.draggedEntity)

(***************************************************************************)
(* C27.  Evaluation result carried forward: in the provider-based hook a   *)
(* successful hover update stores the over element's entity and provider   *)
(* with the visual and dropData the provider's evaluateDrop returned, and  *)
(* the release invokes onDrop of exactly the stored provider with exactly  *)
(* the stored target and dropData; evaluateDrop is not invoked during the  *)
(* release, so nothing is recomputed at commit.                            *)
(***************************************************************************)
\* the hover update just stored an evaluation
C27_SuccessfulHover ==
    /\ hook = "provider" /\ ev.op = "move"
    /\ ~MoveDegrades(pre.ref.draggedEntity, ev)
    /\ ev.pointerY # NoCoords /\ ev.canDrop

C27_FullyStored(ref) ==
    /\ ref.draggedEntity # Null /\ ref.target # Null /\ ref.visual # NullZone
    /\ ref.dropData # Null /\ ref.provider # Null

C27_CarriedForward ==
    /\ C27_SuccessfulHover
       => /\ dropStateRef.target = ev.entity
          /\ dropStateRef.provider = ev.provider
          /\ dropStateRef.dropData = ev.dropData
          /\ dropStateRef.visual = ev.visual
          /\ calls = <<Call("provider.evaluateDrop", ev.provider,
                            pre.ref.draggedEntity, ev.entity, NullZone, ev.pointerY)>>
    /\ (hook = "provider" /\ ev.op = "end")
       => /\ CallsTo(Validations) = <<>>
          /\ Len(CallsTo(Mutations)) = IF C27_FullyStored(pre.ref) THEN 1 ELSE 0
          /\ \A i \in 1..Len(calls) :
                 calls[i].fn = "provider.onDrop"
                 => /\ calls[i].owner = pre.ref.provider
                    /\ calls[i].dragged = pre.ref.draggedEntity
                    /\ calls[i].target = pre.ref.target
                    /\ calls[i].data = pre.ref.dropData

\* a release that commits what an earlier hover stored
C27_Witness ==
    /\ hook = "provider" /\ ev.op = "end"
    /\ CallsTo(Mutations) # <<>>
    /\ calls[1].owner = pre.ref.provider
    /\ calls[1].data = pre.ref.dropData
    /\ calls[1].data = NumPayloads
    /\ calls[1].owner = NumProviders

(***************************************************************************)
(* C28.  Release without a valid drop: an onDragEnd received when the      *)
(* hover sub-state is not fully populated (idle session, dragging with no  *)
(* hover target, or hover cleared by the last update) invokes neither the  *)
(* consumer interception hook nor any mutation callback, leaves            *)
(* lastDropResult unchanged and leaves the session idle.                   *)
(***************************************************************************)
\* the session at the release held no dragged entity or not every hover field
C28_NotPopulated ==
    /\ ev.op = "end"
    /\ ~(HoverPopulated(pre.ref) /\ pre.ref.draggedEntity # Null)

C28_ReleaseWithoutDrop ==
    C28_NotPopulated
    => /\ calls = <<>>
       /\ CallsTo(Mutations \cup {"service.onDrop"}) = <<>>
       /\ lastDropResult = pre.last
       /\ SessionIdle(dropStateRef)
       /\ RenderedIdle

\* a release while dragging with no hover target, after an earlier drop
C28_Witness ==
    /\ C28_NotPopulated
    /\ pre.ref.draggedEntity # Null /\ pre.ref.target = Null
    /\ pre.draggedEntity # Null
    /\ SessionIdle(dropStateRef) /\ RenderedIdle

(***************************************************************************)
(* C29.  Reparent-only provider: for every target that is neither the      *)
(* dragged entity nor a descendant of it, createReparentDragProvider's     *)
(* evaluateDrop returns a valid drop with a border visual and              *)
(* dropData.newParent = target for every pointer position and rectangle,   *)
(* and onDrop calls setParent(dragged, target) exactly once.               *)
(***************************************************************************)
C29_ValidTarget ==
    /\ pv.target # pv.dragged
    /\ ~InSubtreeOf(parent, pv.target, pv.dragged)

C29_ReparentOnly ==
    /\ (pv.stage \in {"reparent", "reparentDrop"} /\ C29_ValidTarget)
       => /\ pv.result.canDrop
          /\ pv.result.visual = "border"
          /\ pv.result.newParent = pv.target
    /\ (pv.stage = "reparent" /\ ~C29_ValidTarget) => ~pv.result.canDrop
    /\ pv.stage = "reparentDrop"
       => /\ C29_ValidTarget
          /\ pv.setParent = <<[entity |-> pv.dragged, newParent |-> pv.target]>>

\* a drop below the rectangle of a target that has a parent of its own
C29_Witness ==
    /\ pv.stage = "reparentDrop"
    /\ pv.pointerY > RectTop + pv.height
    /\ parent[pv.target] # Null
    /\ Len(pv.setParent) = 1
    /\ pv.setParent[1].newParent = pv.target

(***************************************************************************)
(* C30.  Drag-to-reparent toggle of the scene explorer service:            *)
(* enableDragToReparent is true initially, the getter always returns the   *)
(* value most recently assigned, and an assignment notifies the observers  *)
(* exactly once when the assigned value differs from the current one and   *)
(* not at all when it is equal; the onDrop, canDrag and canDrop properties *)
(* each read back the value most recently assigned (undefined initially).  *)
(***************************************************************************)
C30_ServiceAccessors ==
    /\ pv.access.kind = "none"
       => /\ pv.dragToReparentEnabled = TRUE
          /\ \A p \in CallbackProperties : pv.callbacks[p] = Null
    /\ (pv.access.kind = "get" /\ pv.access.property = "enableDragToReparent")
       => /\ pv.access.flag = pv.assigned.enableDragToReparent
          /\ pv.notified = 0
    /\ (pv.access.kind = "set" /\ pv.access.property = "enableDragToReparent")
       => /\ pv.notified = IF pv.access.flag # pv.prior THEN 1 ELSE 0
          /\ pv.delivered = pv.notified * pv.observers
    /\ (pv.access.kind = "get" /\ pv.access.property \in CallbackProperties)
       => pv.access.callback = pv.assigned.callbacks[pv.access.property]
    /\ pv.access.property \in CallbackProperties => pv.notified = 0

\* the toggle is assigned the value it has, with the pane subscribed
C30_Witness ==
    /\ pv.access.kind = "set" /\ pv.access.property = "enableDragToReparent"
    /\ pv.access.flag = FALSE /\ pv.prior = FALSE
    /\ pv.observers = 1
    /\ pv.notified = 0
    /\ pv.callbacks["canDrop"] = NumCallbacks

(***************************************************************************)
(* C31.  Scene graph stays a forest: starting from an acyclic parent       *)
(* relation, after any sequence of drag gestures (start, hover updates at  *)
(* arbitrary pointer positions over arbitrary targets, release) committed  *)
(* through createReorderDragProvider, no node is its own ancestor; in      *)
(* particular a reorder drop, which gives the dragged node the target's    *)
(* parent, never makes the dragged node a descendant of itself.            *)
(***************************************************************************)
\* no node is reached from itself along the parent chain
C31_Acyclic(par) ==
    \A e \in Entities : e \notin AncestorsWithin(par, e, NumEntities)

C31_ReorderCommitted ==
    /\ ev.op = "end" /\ calls # <<>>
    /\ pv.heap[calls[1].data].action = "reorder"

C31_StaysForest ==
    /\ C31_Acyclic(pv.scene.par)
    /\ C31_ReorderCommitted
       => /\ pv.scene.par[calls[1].dragged] = pv.heap[calls[1].data].newParent
          /\ pv.scene.par[calls[1].dragged] # Null
             => ~InSubtreeOf(pv.scene.par, pv.scene.par[calls[1].dragged],
                             calls[1].dragged)
          /\ \A e \in Entities :
                 InSubtreeOf(pv.before.par, e, calls[1].dragged)
                 <=> InSubtreeOf(pv.scene.par, e, calls[1].dragged)

\* a node with a child of its own is reordered out of its parent, next to it
C31_Witness ==
    /\ C31_ReorderCommitted
    /\ pv.before.par[calls[1].dragged] = calls[1].target
    /\ pv.scene.par[calls[1].dragged] # pv.before.par[calls[1].dragged]
    /\ \E e \in Entities : pv.scene.par[e] = calls[1].dragged
    /\ C31_Acyclic(pv.scene.par)

(***************************************************************************)
(* C32.  Mutation happens only on release and at most once per gesture:    *)
(* over every sequence of start, hover, release and cancel events, the     *)
(* mutation callback (performDrop / provider.onDrop) and the consumer      *)
(* interception hook are invoked only inside onDragEnd, each at most once  *)
(* by one release and only by a release that found a dragged entity; every *)
(* release leaves the session without a dragged entity, and only a drag    *)
(* start gives it one again, so between two consecutive drag starts each   *)
(* is invoked at most once.                                                *)
(***************************************************************************)
C32_Interceptions == {"service.onDrop"}

C32_OnlyOnRelease ==
    /\ ev.op # "end" => CallsTo(Mutations \cup C32_Interceptions) = <<>>
    /\ ev.op = "end"
       => /\ Len(CallsTo(Mutations)) <= 1
          /\ Len(CallsTo(C32_Interceptions)) <= 1
          /\ CallsTo(Mutations \cup C32_Interceptions) # <<>>
             => /\ pre.ref.draggedEntity # Null
                /\ pre.ref.target # Null
          /\ dropStateRef.draggedEntity = Null
          /\ dropStateRef.target = Null

\* a session record without a dragged entity gets one from a drag start only
C32_OnlyStartArms ==
    (dropStateRef.draggedEntity = Null /\ dropStateRef'.draggedEntity # Null)
    => ev'.op = "start"

C32_MutationOncePerGesture == [](C32_OnlyOnRelease) /\ [][C32_OnlyStartArms]_vars

\* a second release right after one that committed: nothing is invoked
C32_Witness ==
    /\ ev.op = "end"
    /\ pre.last # NoResult
    /\ pre.ref.draggedEntity = Null
    /\ calls = <<>>
    /\ lastDropResult = pre.last

(***************************************************************************)
(* C33.  Hover target well-formedness: in every state reachable by event   *)
(* sequences of the form start, hover updates, release-or-cancel, whenever *)
(* the stored hover target is non-null a dragged entity is set and the     *)
(* hover target is a different entity from the dragged entity; this holds  *)
(* also for redirected targets (a first child that is the dragged entity   *)
(* is never stored as target).                                             *)
(***************************************************************************)
\* the hover is after an open entity item whose first child is the dragged entity
C33_FirstChildIsDragged ==
    /\ hook = "config" /\ ev.op = "move" /\ ev.pointerY # NoCoords
    /\ ~MoveDegrades(pre.ref.draggedEntity, ev)
    /\ CalculateDropPosition(ev.pointerY, RectTop, RectHeight) = "after"
    /\ ev.itemIsEntity /\ ev.open
    /\ Len(TreeItemChildren(parent, GetEntityId(ev.entity))) > 0
    /\ TreeItemChildren(parent, GetEntityId(ev.entity))[1] = pre.ref.draggedEntity

C33_HoverTargetWellFormed ==
    /\ dropStateRef.target # Null
       => /\ dropStateRef.draggedEntity # Null
          /\ dropStateRef.target # dropStateRef.draggedEntity
    /\ currentDropTarget # Null
       => /\ draggedEntity # Null
          /\ currentDropTarget # draggedEntity
    /\ C33_FirstChildIsDragged
       => dropStateRef.target \in {Null, ev.entity}

\* the dragged entity is the first child of the hovered item: no redirect
C33_Witness ==
    /\ C33_FirstChildIsDragged
    /\ dropStateRef.target = ev.entity
    /\ dropStateRef.position = "after"
    /\ dropStateRef.draggedEntity = pre.ref.draggedEntity

(***************************************************************************)
(* C34.  Redirect fallback: when the classified zone is "after" but the    *)
(* redirect conditions are not all met (the target is not in openItems, or *)
(* has no children, or its tree item is not an entity item, or its first   *)
(* child is the dragged entity, or the first child has no dragDropConfig), *)
(* the resolved drop is "after" on the originally hovered target and is    *)
(* validated with the hovered target's own config; for zones "before" and  *)
(* "inside" the resolved target is always the hovered target.              *)
(***************************************************************************)
\* a hover of the config-object hook that classified a zone
C34_Classified ==
    /\ hook = "config" /\ ev.op = "move" /\ ev.pointerY # NoCoords
    /\ ~MoveDegrades(pre.ref.draggedEntity, ev)

C34_Zone == CalculateDropPosition(ev.pointerY, RectTop, RectHeight)

C34_Children == TreeItemChildren(parent, GetEntityId(ev.entity))

C34_RedirectConditions ==
    /\ ev.itemIsEntity /\ ev.open /\ Len(C34_Children) > 0
    /\ ev.childIsEntity /\ ev.childHasConfig
    /\ C34_Children[1] # pre.ref.draggedEntity

\* the hovered target with the classified zone went through validation
C34_ValidatedAsHovered ==
    /\ calls = CanDropCalls(pre.ref.draggedEntity,
                            [target |-> ev.entity, position |-> C34_Zone,
                             config |-> ev.entity],
                            ev.sectionCb, ev.serviceCb)
    /\ \A i \in 1..Len(calls) :
           /\ calls[i].target = ev.entity /\ calls[i].zone = C34_Zone
           /\ calls[i].fn = "section.canDrop" => calls[i].owner = ev.entity
    /\ IF Approves(ev.sectionCb) /\ Approves(ev.serviceCb)
       THEN /\ dropStateRef.target = ev.entity
            /\ dropStateRef.position = C34_Zone
       ELSE /\ dropStateRef.target = Null
            /\ dropStateRef.position = NullZone

C34_RedirectFallback ==
    /\ (C34_Classified /\ C34_Zone = "after" /\ ~C34_RedirectConditions)
       => C34_ValidatedAsHovered
    /\ (C34_Classified /\ C34_Zone \in {"before", "inside"})
       => C34_ValidatedAsHovered

\* after an open item whose first child has no config: the hovered item's
\* own canDrop approves "after" on the hovered item
C34_Witness ==
    /\ C34_Classified /\ C34_Zone = "after"
    /\ ev.itemIsEntity /\ ev.open /\ Len(C34_Children) > 0
    /\ ev.childIsEntity /\ ~ev.childHasConfig
    /\ C34_Children[1] # pre.ref.draggedEntity
    /\ ev.sectionCb = "true"
    /\ dropStateRef.target = ev.entity /\ dropStateRef.position = "after"
    /\ calls[1].owner = ev.entity

(***************************************************************************)
(* C35.  Release looks up the commit config by the dragged entity: in the  *)
(* config-object hook, when the hover sub-state is populated but           *)
(* allTreeItems has no entity item with a dragDropConfig for the dragged   *)
(* entity's id, onDragEnd invokes neither the consumer interception hook   *)
(* nor performDrop and does not set lastDropResult; and when that config   *)
(* exists but has no performDrop, a non-prevented release still sets       *)
(* lastDropResult although no mutation ran.                                *)
(***************************************************************************)
\* a release of the config-object hook with a dragged entity and a full hover
C35_PopulatedRelease ==
    /\ hook = "config" /\ ev.op = "end"
    /\ pre.ref.draggedEntity # Null
    /\ pre.ref.target # Null /\ pre.ref.position # NullZone

\* the dragged entity's tree item is an entity item with a dragDropConfig
C35_DraggedHasConfig == ev.itemIsEntity /\ ev.carrier

C35_CommitConfigOfDragged ==
    /\ (C35_PopulatedRelease /\ ~C35_DraggedHasConfig)
       => /\ calls = <<>>
          /\ lastDropResult = pre.last
    /\ (C35_PopulatedRelease /\ C35_DraggedHasConfig /\ ~ev.performDrop
        /\ ev.onDrop # "prevent")
       => /\ CallsTo(Mutations) = <<>>
          /\ lastDropResult = <<[draggedEntity |-> pre.ref.draggedEntity,
                                 targetEntity |-> pre.ref.target,
                                 drop |-> pre.ref.position]>>
    /\ C35_PopulatedRelease
       => \A i \in 1..Len(calls) :
              calls[i].fn = "section.performDrop"
              => calls[i].owner = pre.ref.draggedEntity

\* the dragged entity's tree item is an entity item without a config
C35_Witness ==
    /\ C35_PopulatedRelease
    /\ ev.itemIsEntity /\ ~ev.carrier
    /\ calls = <<>>
    /\ lastDropResult = NoResult
    /\ SessionIdle(dropStateRef)

(***************************************************************************)
(* C36.  Rendered state mirrors the session record: after every handler of *)
(* the hook, the rendered values (draggedEntity, currentDropTarget,        *)
(* currentDropPosition or currentDropVisual) equal the corresponding       *)
(* fields of the mutable session record (dropStateRef.draggedEntity,       *)
(* .target, .position or .visual), so a release that commits, commits the  *)
(* dragged entity, the target and the zone or visual that were rendered    *)
(* when it arrived.                                                        *)
(***************************************************************************)
C36_Mirrors ==
    /\ draggedEntity = dropStateRef.draggedEntity
    /\ currentDropTarget = dropStateRef.target
    /\ hook = "config" => currentDropPosition = dropStateRef.position
    /\ hook = "provider" => currentDropVisual = dropStateRef.visual

\* what the release handed to the callbacks is what was rendered before it
C36_CommitsRendered ==
    \A i \in 1..Len(calls) :
        /\ calls[i].dragged = pre.draggedEntity
        /\ calls[i].target = pre.currentDropTarget
        /\ calls[i].fn \in {"service.onDrop", "section.performDrop"}
           => calls[i].zone = pre.currentDropPosition
        /\ calls[i].fn = "setLastDropResult"
           => calls[i].zone = IF hook = "config" THEN pre.currentDropPosition
                              ELSE pre.currentDropVisual

C36_RenderedMirrorsSession ==
    /\ C36_Mirrors
    /\ ev.op = "end" => C36_CommitsRendered

\* a hover is rendered: the highlighted target is the stored one
C36_Witness ==
    /\ ev.op = "move"
    /\ currentDropTarget # Null /\ draggedEntity # Null
    /\ currentDropTarget = dropStateRef.target
    /\ draggedEntity = dropStateRef.draggedEntity
    /\ pre.currentDropTarget # currentDropTarget

====
